---------------------------- MODULE Spec2Model ----------------------------
(***************************************************************************)
(* Statement parser and payoff simulator of the personal finance           *)
(* assistant (finance_assistant/statement_parser.py and                    *)
(* finance_assistant/personal_finance_ai.py).                              *)
(* and the dispute classifier (agent/dispute_agent.py).                    *)
(*                                                                         *)
(* Python floats are idealised as exact rationals <<n, d>> with d > 0 in   *)
(* lowest terms; a Python dict is a function whose DOMAIN is its key set;  *)
(* a Python str is a sequence of one-character strings.                    *)
(***************************************************************************)
EXTENDS Integers, Sequences, FiniteSets, TLC

VARIABLES
    op,               \* which entry point this run exercises
    pc,               \* position inside the running call
    balance,          \* _calculate_payoff_time / _calculate_total_interest argument
    monthly_payment,  \* idem (payment)
    annual_rate,      \* idem
    months,           \* result of _calculate_payoff_time
    horizon,          \* `months` argument of _calculate_total_interest
    loop,             \* locals of the _calculate_total_interest loop
    extra_payment,    \* _calculate_interest_saved argument
    saved,            \* result of _calculate_interest_saved
    current_statement,\* simulate_spending_changes argument (a dict)
    scenarios,        \* simulate_spending_changes argument (a list of dicts)
    sidx,             \* number of scenarios the loop has processed
    results,          \* the results dict of simulate_spending_changes
    statement_text,   \* parse_statement_text argument
    lines,            \* statement_text.lower().split('\n')
    lidx,             \* number of lines the scan has processed
    statement_data,   \* the record parse_statement_text builds
    self,             \* the StatementParser instance the call runs on
    returned,         \* history: the records returned so far, with their instance
    csv_text,         \* parse_csv_transactions argument
    headers,          \* the header names of the first line
    transactions,     \* the list parse_csv_transactions builds; categorize_transactions argument
    tidx,             \* number of transactions categorize_transactions has processed
    categories,       \* the totals dict of categorize_transactions
    bedrock_runtime,  \* DisputeResolutionAgent.bedrock_runtime: a client or None
    reply,            \* what the model call does: the text it returns or the exception it raises
    response,         \* what _invoke_claude returned to classify_dispute
    classification,   \* what classify_dispute returned
    instance,         \* attributes of the objects the workers' calls run on
    calls,            \* per worker: the call it made, as the caller holds it
    frames            \* per worker: the locals of its call

simVars == <<current_statement, scenarios, sidx, results>>
payoffVars == <<balance, monthly_payment, annual_rate, months, horizon, loop,
                extra_payment, saved>>

parseVars == <<statement_text, lines, lidx, statement_data, self, returned>>

csvVars == <<csv_text, headers, transactions>>
catVars == <<tidx, categories>>

disputeVars == <<bedrock_runtime, reply, response, classification>>
workerVars == <<instance, calls, frames>>

vars == <<op, pc, payoffVars, simVars, parseVars, csvVars, catVars, disputeVars, workerVars>>

(* dict.get(key, default) and dict[key] = value *)
Get(d, k, default) == IF k \in DOMAIN d THEN d[k] ELSE default
Put(d, k, v) == [x \in DOMAIN d \cup {k} |-> IF x = k THEN v ELSE d[x]]
EmptyDict == [x \in {} |-> 0]

(* The workers of the concurrent runs, and the attributes __init__ gives    *)
(* the objects their calls run on (statement_parser.py:22,                  *)
(* personal_finance_ai.py:22-63); the values are fixed at construction.     *)
Workers == {1, 2}

InitialInstance ==
    [parser |-> {"patterns"},
     assistant |-> {"aws_region", "bedrock_runtime", "claude_model_id",
                    "titan_embed_model_id", "financial_docs", "doc_embeddings"}]

IdleFrame == [pc |-> "idle", operation |-> "none"]
IdleCall == [count |-> 0]

(* The values of the variables a run does not exercise. *)
DisputeIdle ==
    /\ bedrock_runtime = "None"
    /\ reply = <<>>
    /\ response = <<>>
    /\ classification = <<>>

WorkersIdle ==
    /\ instance = InitialInstance
    /\ calls = [w \in Workers |-> IdleCall]
    /\ frames = [w \in Workers |-> IdleFrame]

-----------------------------------------------------------------------------
(* Exact rational arithmetic standing for float arithmetic.                *)

Abs(i) == IF i < 0 THEN -i ELSE i

(* Euclid's algorithm, as a function so that each step works on values. *)
GCD(a, b) ==
    LET Euclid[x \in Int, y \in Int] == IF y = 0 THEN x ELSE Euclid[y, x % y]
    IN  Euclid[a, b]

(* The operations are functions of the values of their operands. *)
Norm(n, d) ==
    LET Reduced[x \in Int, y \in Int] ==
            LET s == IF y < 0 THEN -1 ELSE 1
                g == GCD(Abs(x), Abs(y))
            IN  <<(s * x) \div g, (s * y) \div g>>
    IN  Reduced[n, d]

R(i) == <<i, 1>>
Frac(n, d) == Norm(n, d)

RAdd(a, b) ==
    LET Sum[x \in Int \X Int, y \in Int \X Int] ==
            LET g == GCD(x[2], y[2])
                l == (x[2] \div g) * y[2]
            IN  Norm(x[1] * (l \div x[2]) + y[1] * (l \div y[2]), l)
    IN  Sum[a, b]

RNeg(a) == <<-a[1], a[2]>>
RSub(a, b) == RAdd(a, RNeg(b))

RMul(a, b) ==
    LET Product[x \in Int \X Int, y \in Int \X Int] ==
            LET g1 == GCD(Abs(x[1]), y[2])
                g2 == GCD(Abs(y[1]), x[2])
            IN  IF x[1] = 0 \/ y[1] = 0 THEN <<0, 1>>
                ELSE <<(x[1] \div g1) * (y[1] \div g2), (x[2] \div g2) * (y[2] \div g1)>>
    IN  Product[a, b]

RInv(a) == Norm(a[2], a[1])
RDiv(a, b) == RMul(a, RInv(b))

RLeq(a, b) ==
    LET Leq[x \in Int \X Int, y \in Int \X Int] ==
            LET g == GCD(x[2], y[2])
            IN  x[1] * (y[2] \div g) <= y[1] * (x[2] \div g)
    IN  Leq[a, b]
RLt(a, b) == ~RLeq(b, a)
RMax(a, b) == IF RLeq(a, b) THEN b ELSE a
RMin(a, b) == IF RLeq(a, b) THEN a ELSE b
RAbs(a) == <<Abs(a[1]), a[2]>>

RECURSIVE RPow(_, _)
RPow(a, k) == IF k = 0 THEN <<1, 1>> ELSE RMul(a, RPow(a, k - 1))

Zero == <<0, 1>>
One == <<1, 1>>

(* The float values that are no rational: inf as <<1, 0>>, -inf as          *)
(* <<-1, 0>> and nan as <<0, 0>>, with the IEEE rules Python applies to     *)
(* +, -, *, / and the comparisons (every comparison with nan is False).     *)
FloatInf == <<1, 0>>
FloatNegInf == <<-1, 0>>
FloatNaN == <<0, 0>>
IsNaN(a) == a = FloatNaN
IsRational(a) == a[2] # 0

FAdd(a, b) ==
    IF IsRational(a) /\ IsRational(b) THEN RAdd(a, b)
    ELSE IF IsNaN(a) \/ IsNaN(b) THEN FloatNaN
    ELSE IF IsRational(b) THEN a
    ELSE IF IsRational(a) THEN b
    ELSE IF a = b THEN a
    ELSE FloatNaN

FSub(a, b) == FAdd(a, RNeg(b))

FSign(a) == IF a[1] > 0 THEN 1 ELSE IF a[1] < 0 THEN -1 ELSE 0

FMul(a, b) ==
    IF IsRational(a) /\ IsRational(b) THEN RMul(a, b)
    ELSE IF IsNaN(a) \/ IsNaN(b) \/ a = Zero \/ b = Zero THEN FloatNaN
    ELSE <<FSign(a) * FSign(b), 0>>

(* a / b for b # 0 (Python raises ZeroDivisionError for b = 0, which the    *)
(* callers model themselves).                                               *)
FDiv(a, b) ==
    IF IsRational(a) /\ IsRational(b) THEN RDiv(a, b)
    ELSE IF IsNaN(a) \/ IsNaN(b) THEN FloatNaN
    ELSE IF IsRational(a) THEN Zero
    ELSE IF IsRational(b) THEN <<FSign(a) * FSign(b), 0>>
    ELSE FloatNaN

FLt(a, b) ==
    IF IsRational(a) /\ IsRational(b) THEN RLt(a, b)
    ELSE IF IsNaN(a) \/ IsNaN(b) THEN FALSE
    ELSE IF IsRational(a) THEN b = FloatInf
    ELSE IF IsRational(b) THEN a = FloatNegInf
    ELSE a = FloatNegInf /\ b = FloatInf

(* The builtins max(a, b) and min(a, b): the first argument unless the      *)
(* second compares greater (smaller).                                       *)
FMax(a, b) == IF FLt(a, b) THEN b ELSE a
FMin(a, b) == IF FLt(b, a) THEN b ELSE a


-----------------------------------------------------------------------------
(* PayoffSimulator: personal_finance_ai.py                                  *)

MonthsPerYear == 12

(* Bounds of the explored inputs. *)
MaxMonths == 4

NoResult == [kind |-> "none", sign |-> 0, u |-> One, w |-> One]
Infinity == [kind |-> "inf", sign |-> 1, u |-> One, w |-> One]
NaN == [kind |-> "nan", sign |-> 0, u |-> One, w |-> One]
ZeroDivisionError == [kind |-> "raise", sign |-> 0, u |-> One, w |-> One]

(* -np.log(x) / np.log(y) for rationals x and y.  A real quotient is kept   *)
(* as sign * ln(u) / ln(w) with u >= 1 and w > 1, which is exact; log of a  *)
(* negative number is nan, log(0) is -inf and x / 0.0 is nan or +-inf.      *)
NegLogQuotient(x, y) ==
    IF x[1] < 0 \/ y[1] < 0 THEN NaN
    ELSE IF y = One THEN
        (IF x = One THEN NaN
         ELSE [kind |-> "inf", sign |-> IF RLt(x, One) THEN 1 ELSE -1,
               u |-> One, w |-> One])
    ELSE IF x = Zero THEN
        (IF y = Zero THEN NaN
         ELSE [kind |-> "inf", sign |-> IF RLt(One, y) THEN 1 ELSE -1,
               u |-> One, w |-> One])
    ELSE IF y = Zero THEN
        [kind |-> "real", sign |-> 0, u |-> One, w |-> <<2, 1>>]
    ELSE
        LET xsmall == RLt(x, One)
            ybig == RLt(One, y)
        IN  [kind |-> "real",
             sign |-> IF x = One THEN 0
                      ELSE IF xsmall = ybig THEN 1 ELSE -1,
             u |-> IF xsmall THEN RInv(x) ELSE x,
             w |-> IF ybig THEN y ELSE RInv(y)]

(* Mutant: the insufficient-payment guard is missing. *)
calculate_payoff_time_unguarded(b, p, r) ==
    LET monthly_rate == RDiv(r, R(MonthsPerYear))
    IN  IF p = Zero THEN ZeroDivisionError
        ELSE NegLogQuotient(RSub(One, RDiv(RMul(b, monthly_rate), p)),
                            RAdd(One, monthly_rate))

calculate_payoff_time(b, p, r) ==
    IF RLeq(p, RMul(b, RDiv(r, R(MonthsPerYear)))) THEN Infinity
    ELSE
        LET monthly_rate == RDiv(r, R(MonthsPerYear))
        IN  IF p = Zero THEN ZeroDivisionError
            ELSE NegLogQuotient(RSub(One, RDiv(RMul(b, monthly_rate), p)),
                                RAdd(One, monthly_rate))

(* The largest a >= 0 with w^a <= u^2, that is with a/2 <= ln(u)/ln(w).     *)
RECURSIVE HalfFloorFrom(_, _, _, _)
HalfFloorFrom(u2, w, a, wa) ==
    IF RLeq(RMul(wa, w), u2) THEN HalfFloorFrom(u2, w, a + 1, RMul(wa, w))
    ELSE a

HalfFloor(m) == HalfFloorFrom(RMul(m.u, m.u), m.w, 0, One)

(* Python's round() of a real result: half-way cases go to the even         *)
(* neighbour.                                                               *)
Round(m) ==
    LET a == HalfFloor(m)
        k == a \div 2
        tie == RPow(m.w, a) = RMul(m.u, m.u)
        mag == IF a % 2 = 0 THEN k
               ELSE IF tie THEN (IF k % 2 = 0 THEN k ELSE k + 1)
               ELSE k + 1
    IN  m.sign * mag

(* ln(u)/ln(w) <= k for a natural k. *)
MagnitudeLeq(m, k) == RLeq(m.u, RPow(m.w, k))

IsFinite(m) == m.kind = "real"
IsPositive(m) == m.kind \in {"inf", "real"} /\ m.sign = 1

(* One pass of the loop body of _calculate_total_interest. *)
LoopStart(b) == [i |-> 0, total_interest |-> Zero, current_balance |-> b, broke |-> FALSE]

(* Mutant: the month's interest is accumulated but not added to the balance. *)
LoopBody_interest_not_capitalised(l, payment, r) ==
    LET monthly_rate == RDiv(r, R(MonthsPerYear))
        interest_charge == RMul(l.current_balance, monthly_rate)
        new_balance == RSub(l.current_balance, payment)
    IN  [i |-> l.i + 1,
         total_interest |-> RAdd(l.total_interest, interest_charge),
         current_balance |-> new_balance,
         broke |-> RLeq(new_balance, Zero)]

LoopBody(l, payment, r) ==
    LET monthly_rate == RDiv(r, R(MonthsPerYear))
        interest_charge == RMul(l.current_balance, monthly_rate)
        new_balance == RSub(RAdd(l.current_balance, interest_charge), payment)
    IN  [i |-> l.i + 1,
         total_interest |-> RAdd(l.total_interest, interest_charge),
         current_balance |-> new_balance,
         broke |-> RLeq(new_balance, Zero)]

(* Mutant: the loop has no break. *)
LoopRunning_without_break(l, n) == l.i < n

LoopRunning(l, n) == l.i < n /\ ~l.broke

RECURSIVE LoopRun(_, _, _, _)
LoopRun(l, payment, r, n) ==
    IF LoopRunning(l, n) THEN LoopRun(LoopBody(l, payment, r), payment, r, n)
    ELSE l

calculate_total_interest(b, payment, r, n) ==
    LoopRun(LoopStart(b), payment, r, n).total_interest

MinimumPaymentFraction == Frac(2, 100)

(* Mutant: the difference of the two simulations is returned unclamped. *)
calculate_interest_saved_unclamped(b, extra, r, n) ==
    LET minimum_payment == RMul(b, MinimumPaymentFraction)
        interest_normal == calculate_total_interest(b, minimum_payment, r, n)
        enhanced_payment == RAdd(minimum_payment, extra)
        interest_with_extra == calculate_total_interest(b, enhanced_payment, r, n)
    IN  RSub(interest_normal, interest_with_extra)

(* Mutant: the extra payment is taken off the minimum payment. *)
calculate_interest_saved_payment_reduced(b, extra, r, n) ==
    LET minimum_payment == RMul(b, MinimumPaymentFraction)
        interest_normal == calculate_total_interest(b, minimum_payment, r, n)
        enhanced_payment == RSub(minimum_payment, extra)
        interest_with_extra == calculate_total_interest(b, enhanced_payment, r, n)
    IN  RMax(Zero, RSub(interest_normal, interest_with_extra))

calculate_interest_saved(b, extra, r, n) ==
    LET minimum_payment == RMul(b, MinimumPaymentFraction)
        interest_normal == calculate_total_interest(b, minimum_payment, r, n)
        enhanced_payment == RAdd(minimum_payment, extra)
        interest_with_extra == calculate_total_interest(b, enhanced_payment, r, n)
    IN  RMax(Zero, RSub(interest_normal, interest_with_extra))

Balances == {R(-4), R(0), R(4), R(8), R(10)}
Payments == {R(0), R(1), R(2), R(5), R(6), R(12)}
AnnualRates == {R(0), R(3), R(6), R(12)}
ExtraPayments == {R(-1), R(0), R(2), R(5)}

InitPayoff ==
    /\ op = "payoff"
    /\ pc = "idle"
    /\ balance \in Balances
    /\ monthly_payment \in Payments
    /\ annual_rate \in AnnualRates
    /\ months = NoResult
    /\ horizon = 0
    /\ loop = LoopStart(Zero)
    /\ extra_payment = Zero
    /\ saved = Zero
    /\ current_statement = EmptyDict
    /\ scenarios = <<>>
    /\ sidx = 0
    /\ results = EmptyDict
    /\ statement_text = <<>>
    /\ lines = <<>>
    /\ lidx = 0
    /\ statement_data = EmptyDict
    /\ self = 1
    /\ returned = <<>>
    /\ csv_text = <<>>
    /\ headers = <<>>
    /\ transactions = <<>>
    /\ tidx = 0
    /\ categories = EmptyDict
    /\ DisputeIdle
    /\ WorkersIdle

PayoffTime ==
    /\ op = "payoff"
    /\ pc = "idle"
    /\ months' = calculate_payoff_time(balance, monthly_payment, annual_rate)
    /\ pc' = "payoff_done"
    /\ UNCHANGED <<disputeVars, workerVars, csvVars, catVars, parseVars, simVars, extra_payment, saved, op, balance, monthly_payment, annual_rate, horizon, loop>>

(* _calculate_total_interest called with an arbitrary horizon. *)
TotalInterestCall ==
    /\ op = "payoff"
    /\ pc \in {"idle", "payoff_done"}
    /\ \E n \in -1 .. MaxMonths :
        horizon' = n
    /\ loop' = LoopStart(balance)
    /\ pc' = "ti_loop"
    /\ UNCHANGED <<disputeVars, workerVars, csvVars, catVars, parseVars, simVars, extra_payment, saved, op, balance, monthly_payment, annual_rate, months>>

(* _calculate_total_interest run for round(months_to_payoff) monthly steps, *)
(* the composition whose convergence is examined below.  The repository's   *)
(* own caller, demo_interest_calculations, truncates with int() instead.    *)
TotalInterestForPayoff ==
    /\ op = "payoff"
    /\ pc = "payoff_done"
    /\ IsFinite(months)
    /\ horizon' = Round(months)
    /\ loop' = LoopStart(balance)
    /\ pc' = "ti_payoff_loop"
    /\ UNCHANGED <<disputeVars, workerVars, csvVars, catVars, parseVars, simVars, extra_payment, saved, op, balance, monthly_payment, annual_rate, months>>

TotalInterestStep ==
    /\ op = "payoff"
    /\ pc \in {"ti_loop", "ti_payoff_loop"}
    /\ LoopRunning(loop, horizon)
    /\ loop' = LoopBody(loop, monthly_payment, annual_rate)
    /\ UNCHANGED <<disputeVars, workerVars, csvVars, catVars, parseVars, simVars, extra_payment, saved, op, pc, balance, monthly_payment, annual_rate, months, horizon>>

TotalInterestReturn ==
    /\ op = "payoff"
    /\ pc \in {"ti_loop", "ti_payoff_loop"}
    /\ ~LoopRunning(loop, horizon)
    /\ pc' = IF pc = "ti_loop" THEN "ti_done" ELSE "ti_payoff_done"
    /\ UNCHANGED <<disputeVars, workerVars, csvVars, catVars, parseVars, simVars, extra_payment, saved, op, balance, monthly_payment, annual_rate, months, horizon, loop>>

(* _calculate_interest_saved called directly. *)
InterestSaved ==
    /\ op = "payoff"
    /\ pc = "idle"
    /\ \E e \in ExtraPayments, n \in -1 .. MaxMonths :
        /\ extra_payment' = e
        /\ horizon' = n
        /\ saved' = calculate_interest_saved(balance, e, annual_rate, n)
    /\ pc' = "saved_done"
    /\ UNCHANGED <<disputeVars, workerVars, csvVars, catVars, parseVars, simVars, op, balance, monthly_payment, annual_rate, months, loop>>

NextPayoff ==
    \/ InterestSaved
    \/ PayoffTime
    \/ TotalInterestCall
    \/ TotalInterestForPayoff
    \/ TotalInterestStep
    \/ TotalInterestReturn

SpecPayoff == InitPayoff /\ [][NextPayoff]_vars

(* A call that has started runs on: the interpreter executes the next pass  *)
(* of the loop, or the return, of a call in progress.                       *)
SpecPayoffFair ==
    /\ SpecPayoff
    /\ WF_vars(TotalInterestStep)
    /\ WF_vars(TotalInterestReturn)


-----------------------------------------------------------------------------
(* simulate_spending_changes: personal_finance_ai.py                        *)

(* Bound of the explored scenario lists. *)
MaxScenarios == 2

DefaultDurationMonths == 12
DefaultInterestRate == Frac(1899, 10000)
UnnamedScenario == "Unnamed Scenario"

scenario_name(sc) == Get(sc, "name", UnnamedScenario)

(* Mutant: a monthly_change of 0 is treated as additional spending. *)
additional_spending_or_zero(monthly_change) == RLeq(Zero, monthly_change)

(* `if monthly_change > 0` *)
additional_spending(monthly_change) == RLt(Zero, monthly_change)

(* Mutant: the spending of one month only is added to the balance. *)
spending_new_balance_one_month(current_balance, monthly_change, duration_months) ==
    RAdd(current_balance, monthly_change)

spending_new_balance(current_balance, monthly_change, duration_months) ==
    RAdd(current_balance, RMul(monthly_change, R(duration_months)))

(* Mutant: the reduced balance is not clamped at zero. *)
saving_new_balance_unclamped(current_balance, total_saved) ==
    RSub(current_balance, total_saved)

saving_new_balance(current_balance, total_saved) ==
    RMax(Zero, RSub(current_balance, total_saved))

(* The body of the loop over scenarios: the entry stored under the          *)
(* scenario's name.  The summary f-string is kept as the tuple of the       *)
(* values it formats.                                                       *)
scenario_result(st, sc) ==
    LET monthly_change == Get(sc, "monthly_change", Zero)
        duration_months == Get(sc, "duration_months", DefaultDurationMonths)
        current_balance == Get(st, "current_balance", Zero)
        current_payment == Get(st, "minimum_payment", Zero)
        interest_rate == Get(st, "interest_rate", DefaultInterestRate)
    IN  IF additional_spending(monthly_change) THEN
            LET new_balance == spending_new_balance(current_balance, monthly_change,
                                                    duration_months)
                new_interest_cost == calculate_total_interest(new_balance, current_payment,
                                                              interest_rate, duration_months)
            IN  [monthly_change |-> monthly_change,
                 new_balance |-> new_balance,
                 additional_interest |-> new_interest_cost,
                 summary |-> <<"Spending", monthly_change,
                               RMul(monthly_change, R(duration_months)), new_interest_cost>>]
        ELSE
            LET additional_payment == RAbs(monthly_change)
                total_saved == RMul(additional_payment, R(duration_months))
                new_balance == saving_new_balance(current_balance, total_saved)
                interest_saved == calculate_interest_saved(current_balance, additional_payment,
                                                           interest_rate, duration_months)
            IN  [monthly_change |-> monthly_change,
                 total_impact |-> total_saved,
                 new_balance |-> new_balance,
                 interest_saved |-> interest_saved,
                 summary |-> <<"Saving", RAbs(monthly_change), duration_months,
                               total_saved, interest_saved>>]

(* Explored inputs.  A statement without interest_rate (default 0.1899)     *)
(* carries a payment that ends every simulation in its first month, which   *)
(* keeps the exact arithmetic within TLC's integers.                        *)
Statements ==
    { [current_balance |-> R(8), minimum_payment |-> R(2), interest_rate |-> R(6)],
      [current_balance |-> R(8), minimum_payment |-> R(5), interest_rate |-> R(12)],
      [current_balance |-> R(4), minimum_payment |-> R(2), interest_rate |-> R(0)],
      [current_balance |-> R(0), minimum_payment |-> R(2), interest_rate |-> R(6)],
      [current_balance |-> R(-4), minimum_payment |-> R(2), interest_rate |-> R(6)],
      [current_balance |-> R(8), interest_rate |-> R(6)],
      [minimum_payment |-> R(60)] }

ScenarioPool ==
    { [name |-> n, monthly_change |-> R(c), duration_months |-> 2] :
          n \in {"A", "B"}, c \in {-2, 0, 3} }
    \cup { [name |-> "A", monthly_change |-> R(3)],
           [name |-> "B", monthly_change |-> R(-2)],
           [monthly_change |-> R(3), duration_months |-> 2],
           [name |-> "A", duration_months |-> 1],
           [name |-> "B", monthly_change |-> R(-5), duration_months |-> 2] }

ScenarioLists == UNION { [1 .. n -> ScenarioPool] : n \in 0 .. MaxScenarios }

InitSimulate ==
    /\ op = "simulate"
    /\ pc = "sim_loop"
    /\ current_statement \in Statements
    /\ scenarios \in ScenarioLists
    /\ sidx = 0
    /\ results = EmptyDict
    /\ balance = Zero
    /\ monthly_payment = Zero
    /\ annual_rate = Zero
    /\ months = NoResult
    /\ horizon = 0
    /\ loop = LoopStart(Zero)
    /\ extra_payment = Zero
    /\ saved = Zero
    /\ statement_text = <<>>
    /\ lines = <<>>
    /\ lidx = 0
    /\ statement_data = EmptyDict
    /\ self = 1
    /\ returned = <<>>
    /\ csv_text = <<>>
    /\ headers = <<>>
    /\ transactions = <<>>
    /\ tidx = 0
    /\ categories = EmptyDict
    /\ DisputeIdle
    /\ WorkersIdle

(* One iteration of `for scenario in scenarios`. *)
SimulateStep ==
    /\ op = "simulate"
    /\ pc = "sim_loop"
    /\ sidx < Len(scenarios)
    /\ results' = Put(results, scenario_name(scenarios[sidx + 1]),
                      scenario_result(current_statement, scenarios[sidx + 1]))
    /\ sidx' = sidx + 1
    /\ UNCHANGED <<disputeVars, workerVars, csvVars, catVars, parseVars, payoffVars, op, pc, current_statement, scenarios>>

SimulateReturn ==
    /\ op = "simulate"
    /\ pc = "sim_loop"
    /\ sidx = Len(scenarios)
    /\ pc' = "sim_done"
    /\ UNCHANGED <<disputeVars, workerVars, csvVars, catVars, parseVars, payoffVars, simVars, op>>

NextSimulate ==
    \/ SimulateStep
    \/ SimulateReturn

SpecSimulate == InitSimulate /\ [][NextSimulate]_vars

-----------------------------------------------------------------------------
(* StatementParser: statement_parser.py                                     *)
(* A str is a sequence of one-character strings.                            *)

UpperToLower ==
    "A" :> "a" @@ "B" :> "b" @@ "C" :> "c" @@ "D" :> "d" @@ "E" :> "e" @@ "F" :> "f" @@
    "G" :> "g" @@ "H" :> "h" @@ "I" :> "i" @@ "J" :> "j" @@ "K" :> "k" @@ "L" :> "l" @@
    "M" :> "m" @@ "N" :> "n" @@ "O" :> "o" @@ "P" :> "p" @@ "Q" :> "q" @@ "R" :> "r" @@
    "S" :> "s" @@ "T" :> "t" @@ "U" :> "u" @@ "V" :> "v" @@ "W" :> "w" @@ "X" :> "x" @@
    "Y" :> "y" @@ "Z" :> "z"

(* str.lower() *)
Lower(s) == [i \in DOMAIN s |-> IF s[i] \in DOMAIN UpperToLower THEN UpperToLower[s[i]] ELSE s[i]]

(* str.split('\n'): the pieces between consecutive line breaks. *)
SplitLines(s) ==
    LET breaks == {0, Len(s) + 1} \cup {i \in 1 .. Len(s) : s[i] = "\n"}
        nth(k) == CHOOSE b \in breaks : Cardinality({j \in breaks : j < b}) = k
    IN  [k \in 1 .. Cardinality(breaks) - 1 |-> SubSeq(s, nth(k - 1) + 1, nth(k) - 1)]

(* `keyword in line` *)
Contains(s, kw) ==
    \E i \in 1 .. (Len(s) - Len(kw) + 1) : SubSeq(s, i, i + Len(kw) - 1) = kw

Digits == {"0", "1", "2", "3", "4", "5", "6", "7", "8", "9"}
DigitOrder == <<"0", "1", "2", "3", "4", "5", "6", "7", "8", "9">>
DigitValue(c) == (CHOOSE k \in 1 .. 10 : DigitOrder[k] = c) - 1
DigitsOrComma == Digits \cup {","}
DateSeparators == {"/", "-"}
Whitespace == {" ", "\t", "\r"}
WordChars == Digits \cup {"_"} \cup {"a", "b", "c", "d", "e", "f", "g", "h", "i", "j", "k", "l", "m", "n", "o", "p", "q", "r", "s", "t", "u", "v", "w", "x", "y", "z"} \cup
             {"A", "B", "C", "D", "E", "F", "G", "H", "I", "J", "K", "L", "M", "N", "O", "P", "Q", "R", "S", "T", "U", "V", "W", "X", "Y", "Z"}

(* The first index >= i whose character is outside `set`, Len(s) + 1 if none. *)
RunEnd(s, i, set) ==
    LET stops == {j \in i .. Len(s) : s[j] \notin set}
    IN  IF i > Len(s) THEN i
        ELSE IF stops = {} THEN Len(s) + 1
        ELSE CHOOSE j \in stops : \A k \in stops : j <= k

(* re.findall of amount_pattern: an optional '$', then the group: one or    *)
(* more digits or commas, an optional '.', any digits.  The group of every  *)
(* match, left to right.                                                    *)
RECURSIVE AmountMatchesFrom(_, _, _)
AmountMatchesFrom(s, i, acc) ==
    IF i > Len(s) THEN acc
    ELSE
        LET start == IF s[i] = "$" THEN i + 1 ELSE i
        IN  IF start <= Len(s) /\ s[start] \in DigitsOrComma THEN
                LET e1 == RunEnd(s, start, DigitsOrComma)
                    e2 == IF e1 <= Len(s) /\ s[e1] = "." THEN e1 + 1 ELSE e1
                    e3 == RunEnd(s, e2, Digits)
                IN  AmountMatchesFrom(s, e3, Append(acc, SubSeq(s, start, e3 - 1)))
            ELSE AmountMatchesFrom(s, i + 1, acc)

AmountMatches(s) == AmountMatchesFrom(s, 1, <<>>)

(* None, and a returned value *)
None == [ok |-> FALSE, val |-> <<>>]
Some(v) == [ok |-> TRUE, val |-> v]

RECURSIVE ToInt(_)
ToInt(ds) == IF ds = <<>> THEN 0
             ELSE 10 * ToInt(SubSeq(ds, 1, Len(ds) - 1)) + DigitValue(ds[Len(ds)])

RECURSIVE PowerOfTen(_)
PowerOfTen(k) == IF k = 0 THEN 1 ELSE 10 * PowerOfTen(k - 1)

IsComma(c) == c = ","
IsDigit(c) == c \in Digits
NotComma(c) == c # ","

(* The largest float is below 1.8e308: a decimal with more integer digits   *)
(* than this converts to inf.                                               *)
FloatMaxIntegerDigits == 309

(* float(amount_str) for a string of digits with at most one '.': the value, *)
(* inf when it is out of the float range, or None where float() raises      *)
(* ValueError (no digit at all).                                            *)
ParseFloat(str) ==
    LET ds == SelectSeq(str, IsDigit)
        dot == RunEnd(str, 1, Digits)
        frac == Len(str) - dot
        significant == dot - RunEnd(str, 1, {"0"})
    IN  IF ds = <<>> THEN None
        ELSE IF significant > FloatMaxIntegerDigits THEN Some(FloatInf)
        ELSE IF dot > Len(str) THEN Some(Norm(ToInt(ds), 1))
        ELSE Some(Norm(ToInt(ds), PowerOfTen(frac)))

(* Mutant: the first match is taken instead of the last. *)
extract_amount_first_match(text) ==
    LET matches == AmountMatches(text)
    IN  IF matches # <<>> THEN ParseFloat(SelectSeq(matches[1], NotComma))
        ELSE None

extract_amount(text) ==
    LET matches == AmountMatches(text)
    IN  IF matches # <<>> THEN ParseFloat(SelectSeq(matches[Len(matches)], NotComma))
        ELSE None

(* \d{1,2}[\/\-]\d{1,2}[\/\-]\d{n} matched at index i: the index after the  *)
(* match, 0 if there is none.                                               *)
NumericDateEnd(s, i, n) ==
    LET a == RunEnd(s, i, Digits)
        b == RunEnd(s, a + 1, Digits)
        year == SubSeq(s, b + 1, b + n)
    IN  IF /\ a - i \in {1, 2}
           /\ a <= Len(s) /\ s[a] \in DateSeparators
           /\ b - (a + 1) \in {1, 2}
           /\ b <= Len(s) /\ s[b] \in DateSeparators
           /\ b + n <= Len(s)
           /\ \A k \in 1 .. n : year[k] \in Digits
        THEN b + n + 1
        ELSE 0

(* \w{3,9}\s+\d{1,2},?\s+\d{4} matched at index i. *)
TextDateEnd(s, i) ==
    LET a == RunEnd(s, i, WordChars)
        b == RunEnd(s, a, Whitespace)
        c == RunEnd(s, b, Digits)
        d == IF c <= Len(s) /\ s[c] = "," THEN c + 1 ELSE c
        e == RunEnd(s, d, Whitespace)
        year == SubSeq(s, e, e + 3)
    IN  IF /\ a - i \in 3 .. 9
           /\ b > a
           /\ c - b \in {1, 2}
           /\ e > d
           /\ e + 3 <= Len(s)
           /\ \A k \in 1 .. 4 : year[k] \in Digits
        THEN e + 4
        ELSE 0

(* re.search over the three date patterns in order; the leftmost match of   *)
(* the first pattern that matches.                                          *)
NumericDateStarts(s, n) == {i \in 1 .. Len(s) : NumericDateEnd(s, i, n) # 0}
TextDateStarts(s) == {i \in 1 .. Len(s) : TextDateEnd(s, i) # 0}
Leftmost(S) == CHOOSE i \in S : \A j \in S : i <= j

extract_date(text) ==
    IF NumericDateStarts(text, 4) # {} THEN
        LET i == Leftmost(NumericDateStarts(text, 4))
        IN  Some(SubSeq(text, i, NumericDateEnd(text, i, 4) - 1))
    ELSE IF NumericDateStarts(text, 2) # {} THEN
        LET i == Leftmost(NumericDateStarts(text, 2))
        IN  Some(SubSeq(text, i, NumericDateEnd(text, i, 2) - 1))
    ELSE IF TextDateStarts(text) # {} THEN
        LET i == Leftmost(TextDateStarts(text))
        IN  Some(SubSeq(text, i, TextDateEnd(text, i) - 1))
    ELSE None

(* The keywords tested by the line scan. *)
kw_previous_balance == <<"p", "r", "e", "v", "i", "o", "u", "s", " ", "b", "a", "l", "a", "n", "c", "e">>
kw_last_balance == <<"l", "a", "s", "t", " ", "b", "a", "l", "a", "n", "c", "e">>
kw_current_balance == <<"c", "u", "r", "r", "e", "n", "t", " ", "b", "a", "l", "a", "n", "c", "e">>
kw_new_balance == <<"n", "e", "w", " ", "b", "a", "l", "a", "n", "c", "e">>
kw_payment == <<"p", "a", "y", "m", "e", "n", "t">>
kw_minimum == <<"m", "i", "n", "i", "m", "u", "m">>
kw_minimum_payment == <<"m", "i", "n", "i", "m", "u", "m", " ", "p", "a", "y", "m", "e", "n", "t">>
kw_interest == <<"i", "n", "t", "e", "r", "e", "s", "t">>
kw_finance_charge == <<"f", "i", "n", "a", "n", "c", "e", " ", "c", "h", "a", "r", "g", "e">>
kw_due_date == <<"d", "u", "e", " ", "d", "a", "t", "e">>
kw_payment_due == <<"p", "a", "y", "m", "e", "n", "t", " ", "d", "u", "e">>
kw_credit_limit == <<"c", "r", "e", "d", "i", "t", " ", "l", "i", "m", "i", "t">>
kw_available_credit == <<"a", "v", "a", "i", "l", "a", "b", "l", "e", " ", "c", "r", "e", "d", "i", "t">>

(* Mutant: `if amount is not None:`, which lets a zero amount through. *)
Truthy_not_none(x) == x.ok

(* `if amount:` / `if date:` — None, 0.0 and '' are falsy. *)
Truthy(x) == x.ok /\ x.val # Zero /\ x.val # <<>>

(* Mutant: a field that is set is not assigned again. *)
SetIfTruthy_first_wins(sd, field, x) ==
    IF Truthy(x) /\ field \notin DOMAIN sd THEN Put(sd, field, x.val) ELSE sd

SetIfTruthy(sd, field, x) == IF Truthy(x) THEN Put(sd, field, x.val) ELSE sd

(* Mutant: the due-date test precedes the payment test. *)
scan_line_due_date_first(sd, line) ==
    IF Contains(line, kw_previous_balance) \/ Contains(line, kw_last_balance) THEN
        SetIfTruthy(sd, "previous_balance", extract_amount(line))
    ELSE IF Contains(line, kw_current_balance) \/ Contains(line, kw_new_balance) THEN
        SetIfTruthy(sd, "current_balance", extract_amount(line))
    ELSE IF Contains(line, kw_due_date) \/ Contains(line, kw_payment_due) THEN
        SetIfTruthy(sd, "due_date", extract_date(line))
    ELSE IF Contains(line, kw_payment) /\ ~Contains(line, kw_minimum) THEN
        SetIfTruthy(sd, "payments", extract_amount(line))
    ELSE IF Contains(line, kw_minimum_payment) THEN
        SetIfTruthy(sd, "minimum_payment", extract_amount(line))
    ELSE IF Contains(line, kw_interest) \/ Contains(line, kw_finance_charge) THEN
        SetIfTruthy(sd, "interest_charged", extract_amount(line))
    ELSE IF Contains(line, kw_credit_limit) THEN
        SetIfTruthy(sd, "credit_limit", extract_amount(line))
    ELSE IF Contains(line, kw_available_credit) THEN
        SetIfTruthy(sd, "available_credit", extract_amount(line))
    ELSE sd

(* The body of `for line in lines`: the if/elif chain. *)
scan_line(sd, line) ==
    IF Contains(line, kw_previous_balance) \/ Contains(line, kw_last_balance) THEN
        SetIfTruthy(sd, "previous_balance", extract_amount(line))
    ELSE IF Contains(line, kw_current_balance) \/ Contains(line, kw_new_balance) THEN
        SetIfTruthy(sd, "current_balance", extract_amount(line))
    ELSE IF Contains(line, kw_payment) /\ ~Contains(line, kw_minimum) THEN
        SetIfTruthy(sd, "payments", extract_amount(line))
    ELSE IF Contains(line, kw_minimum_payment) THEN
        SetIfTruthy(sd, "minimum_payment", extract_amount(line))
    ELSE IF Contains(line, kw_interest) \/ Contains(line, kw_finance_charge) THEN
        SetIfTruthy(sd, "interest_charged", extract_amount(line))
    ELSE IF Contains(line, kw_due_date) \/ Contains(line, kw_payment_due) THEN
        SetIfTruthy(sd, "due_date", extract_date(line))
    ELSE IF Contains(line, kw_credit_limit) THEN
        SetIfTruthy(sd, "credit_limit", extract_amount(line))
    ELSE IF Contains(line, kw_available_credit) THEN
        SetIfTruthy(sd, "available_credit", extract_amount(line))
    ELSE sd

InterestRateCap == Frac(30, 100)

(* Mutant: the derived new_charges is not clamped at zero. *)
derive_new_charges_unclamped(sd) ==
    IF /\ "new_charges" \notin DOMAIN sd
       /\ "current_balance" \in DOMAIN sd
       /\ "previous_balance" \in DOMAIN sd
       /\ "payments" \in DOMAIN sd
    THEN Put(sd, "new_charges",
             FSub(FAdd(FSub(sd["current_balance"], sd["previous_balance"]),
                       sd["payments"]),
                  Get(sd, "interest_charged", Zero)))
    ELSE sd

(* Mutant: the interest charged is not subtracted. *)
derive_new_charges_without_interest(sd) ==
    IF /\ "new_charges" \notin DOMAIN sd
       /\ "current_balance" \in DOMAIN sd
       /\ "previous_balance" \in DOMAIN sd
       /\ "payments" \in DOMAIN sd
    THEN Put(sd, "new_charges",
             FMax(Zero, FAdd(FSub(sd["current_balance"], sd["previous_balance"]),
                             sd["payments"])))
    ELSE sd

derive_new_charges(sd) ==
    IF /\ "new_charges" \notin DOMAIN sd
       /\ "current_balance" \in DOMAIN sd
       /\ "previous_balance" \in DOMAIN sd
       /\ "payments" \in DOMAIN sd
    THEN Put(sd, "new_charges",
             FMax(Zero, FSub(FAdd(FSub(sd["current_balance"], sd["previous_balance"]),
                                  sd["payments"]),
                             Get(sd, "interest_charged", Zero))))
    ELSE sd

(* Mutant: the derivation does not test whether the scan found a value. *)
derive_available_credit_overwrites(sd) ==
    IF /\ "credit_limit" \in DOMAIN sd
       /\ "current_balance" \in DOMAIN sd
    THEN Put(sd, "available_credit", FSub(sd["credit_limit"], sd["current_balance"]))
    ELSE sd

derive_available_credit(sd) ==
    IF /\ "available_credit" \notin DOMAIN sd
       /\ "credit_limit" \in DOMAIN sd
       /\ "current_balance" \in DOMAIN sd
    THEN Put(sd, "available_credit", FSub(sd["credit_limit"], sd["current_balance"]))
    ELSE sd

(* The division has no guard of its own: a zero previous_balance would     *)
(* raise ZeroDivisionError here.                                            *)
derive_interest_rate(sd) ==
    IF /\ "interest_rate" \notin DOMAIN sd
       /\ "interest_charged" \in DOMAIN sd
       /\ "previous_balance" \in DOMAIN sd
       /\ FLt(Zero, sd["interest_charged"])
    THEN LET monthly_rate == FDiv(sd["interest_charged"], sd["previous_balance"])
             annual_rate_estimate == FMul(monthly_rate, R(12))
         IN  Put(sd, "interest_rate", FMin(annual_rate_estimate, InterestRateCap))
    ELSE sd

calculate_derived_fields(sd) ==
    derive_interest_rate(derive_available_credit(derive_new_charges(sd)))

(* interest_charged / previous_balance is evaluated without a test of the   *)
(* divisor: a zero previous_balance raises ZeroDivisionError out of         *)
(* _calculate_derived_fields and out of parse_statement_text.               *)
derived_fields_raise(sd) ==
    /\ "interest_rate" \notin DOMAIN sd
    /\ "interest_charged" \in DOMAIN sd
    /\ "previous_balance" \in DOMAIN sd
    /\ FLt(Zero, sd["interest_charged"])
    /\ sd["previous_balance"] = Zero

(* Explored inputs.  One-line texts pair a label with a value part; the     *)
(* statement texts are sequences of plain label lines.                      *)
MaxLines == 4

LabelTexts ==
    { <<"P", "r", "e", "v", "i", "o", "u", "s", " ", "B", "a", "l", "a", "n", "c", "e">>,
      <<"l", "a", "s", "t", " ", "b", "a", "l", "a", "n", "c", "e">>,
      <<"C", "u", "r", "r", "e", "n", "t", " ", "B", "a", "l", "a", "n", "c", "e">>,
      <<"N", "e", "w", " ", "B", "a", "l", "a", "n", "c", "e">>,
      <<"P", "a", "y", "m", "e", "n", "t", "s">>,
      <<"M", "i", "n", "i", "m", "u", "m", " ", "P", "a", "y", "m", "e", "n", "t", " ", "D", "u", "e">>,
      <<"I", "n", "t", "e", "r", "e", "s", "t", " ", "C", "h", "a", "r", "g", "e", "d">>,
      <<"F", "i", "n", "a", "n", "c", "e", " ", "C", "h", "a", "r", "g", "e">>,
      <<"D", "u", "e", " ", "D", "a", "t", "e">>,
      <<"P", "a", "y", "m", "e", "n", "t", " ", "D", "u", "e", " ", "D", "a", "t", "e">>,
      <<"C", "r", "e", "d", "i", "t", " ", "L", "i", "m", "i", "t">>,
      <<"A", "v", "a", "i", "l", "a", "b", "l", "e", " ", "C", "r", "e", "d", "i", "t">>,
      <<"P", "a", "y", "m", "e", "n", "t", " ", "i", "n", "t", "e", "r", "e", "s", "t">>,
      <<"m", "i", "n", "i", "m", "u", "m", " ", "d", "u", "e", ",", " ", "p", "a", "y", "m", "e", "n", "t", " ", "d", "u", "e">>,
      <<"I", "n", "t", "e", "r", "e", "s", "t", " ", "o", "n", " ", "p", "r", "e", "v", "i", "o", "u", "s", " ", "b", "a", "l", "a", "n", "c", "e">>,
      <<"A", "c", "c", "o", "u", "n", "t">>,
      <<"A", "v", "a", "i", "l", "a", "b", "l", "e", " ", "c", "r", "e", "d", "i", "t", " ", "l", "i", "m", "i", "t">> }

ValueTexts ==
    { <<"$", "5", "0", ".", "0", "0">>,
      <<"$", "1", ",", "2", "3", "4", ".", "5", "6">>,
      <<"$", "1", "0", "0", ".", "0", "0", " ", "C", "u", "r", "r", "e", "n", "t", ":", " ", "$", "5", "0", ".", "0", "0">>,
      <<"1", "0", "/", "1", "5", "/", "2", "0", "2", "5">>,
      <<"$", "0", ".", "0", "0">>,
      <<"$", "7", "5", ".", "5", "0", ",">>,
      <<>>,
      <<"O", "c", "t", " ", "1", "5", ",", " ", "2", "0", "2", "5">> }

StatementLines ==
    { <<"p", "r", "e", "v", "i", "o", "u", "s", " ", "b", "a", "l", "a", "n", "c", "e", ":", " ", "$", "1", "0", "0", ".", "0", "0">>,
      <<"p", "r", "e", "v", "i", "o", "u", "s", " ", "b", "a", "l", "a", "n", "c", "e", ":", " ", "$", "3", "0", "0", ".", "0", "0">>,
      <<"c", "u", "r", "r", "e", "n", "t", " ", "b", "a", "l", "a", "n", "c", "e", ":", " ", "$", "2", "0", "0", ".", "0", "0">>,
      <<"p", "a", "y", "m", "e", "n", "t", "s", ":", " ", "$", "5", "0", ".", "0", "0">>,
      <<"i", "n", "t", "e", "r", "e", "s", "t", " ", "c", "h", "a", "r", "g", "e", "d", ":", " ", "$", "2", ".", "0", "0">>,
      <<"i", "n", "t", "e", "r", "e", "s", "t", " ", "c", "h", "a", "r", "g", "e", "d", ":", " ", "$", "1", "0", ".", "0", "0">>,
      <<"c", "r", "e", "d", "i", "t", " ", "l", "i", "m", "i", "t", ":", " ", "$", "1", ",", "0", "0", "0", ".", "0", "0">>,
      <<"a", "v", "a", "i", "l", "a", "b", "l", "e", " ", "c", "r", "e", "d", "i", "t", ":", " ", "$", "7", "0", "0", ".", "0", "0">> }

ScanLines == { l \o <<":", " ">> \o v : l \in LabelTexts, v \in ValueTexts }

RECURSIVE JoinLines(_)
JoinLines(ls) ==
    IF ls = <<>> THEN <<>>
    ELSE IF Len(ls) = 1 THEN ls[1]
    ELSE ls[1] \o <<"\n">> \o JoinLines(Tail(ls))

StatementTexts ==
    { JoinLines(ls) : ls \in UNION { [1 .. n -> StatementLines] : n \in 0 .. MaxLines } }

(* Amounts at the edges of the float range: a statement of five label      *)
(* lines, each amount an ordinary one, zero, or a run of 310 digits.        *)
HugeAmount == [i \in 1 .. FloatMaxIntegerDigits + 1 |-> "9"]

OverflowLabels ==
    << <<"P", "r", "e", "v", "i", "o", "u", "s", " ", "B", "a", "l", "a", "n", "c", "e", ":", " ">>,
       <<"C", "u", "r", "r", "e", "n", "t", " ", "B", "a", "l", "a", "n", "c", "e", ":", " ">>,
       <<"P", "a", "y", "m", "e", "n", "t", "s", ":", " ">>,
       <<"I", "n", "t", "e", "r", "e", "s", "t", " ", "C", "h", "a", "r", "g", "e", "d", ":", " ">>,
       <<"C", "r", "e", "d", "i", "t", " ", "L", "i", "m", "i", "t", ":", " ">> >>

OrdinaryAmounts ==
    << <<"3", "0", "0", ".", "0", "0">>, <<"2", "0", "0", ".", "0", "0">>, <<"5", "0", ".", "0", "0">>, <<"2", ".", "0", "0">>, <<"1", "0", "0", "0", ".", "0", "0">> >>

ZeroAmount == <<"0", ".", "0", "0">>

OverflowTexts ==
    { JoinLines([k \in 1 .. 5 |->
                    OverflowLabels[k] \o (CASE amount[k] = "huge" -> HugeAmount
                                            [] amount[k] = "zero" -> ZeroAmount
                                            [] OTHER -> OrdinaryAmounts[k])])
        : amount \in [1 .. 5 -> {"ordinary", "zero", "huge"}] }

(* Statements that give a field more than once: lines of the previous      *)
(* balance and of the due date, with a value, with none, and with 0.        *)
MaxRepeats == 3

RepeatedFieldLines ==
    { <<"P", "r", "e", "v", "i", "o", "u", "s", " ", "B", "a", "l", "a", "n", "c", "e", ":", " ", "$", "3", "0", "0", ".", "0", "0">>,
      <<"L", "a", "s", "t", " ", "B", "a", "l", "a", "n", "c", "e", ":", " ", "$", "2", "5", "0", ".", "0", "0">>,
      <<"P", "r", "e", "v", "i", "o", "u", "s", " ", "B", "a", "l", "a", "n", "c", "e", ":", " ", "p", "e", "n", "d", "i", "n", "g">>,
      <<"P", "r", "e", "v", "i", "o", "u", "s", " ", "B", "a", "l", "a", "n", "c", "e", ":", " ", "$", "0", ".", "0", "0">>,
      <<"D", "u", "e", " ", "D", "a", "t", "e", ":", " ", "1", "0", "/", "1", "5", "/", "2", "0", "2", "5">>,
      <<"P", "a", "y", "m", "e", "n", "t", " ", "D", "u", "e", " ", "1", "1", "/", "2", "0", "/", "2", "5">>,
      <<"D", "u", "e", " ", "D", "a", "t", "e", ":", " ", "s", "e", "e", " ", "b", "e", "l", "o", "w">> }

RepeatedFieldTexts ==
    { JoinLines(ls) : ls \in UNION { [1 .. n -> RepeatedFieldLines] : n \in 2 .. MaxRepeats } }

Texts == ScanLines \cup StatementTexts \cup OverflowTexts \cup RepeatedFieldTexts

(* Readings of datetime.now(). *)
Timestamps == {"t1", "t2"}

InitParse ==
    /\ op = "parse"
    /\ pc = "parse_start"
    /\ statement_text \in Texts
    /\ lines = <<>>
    /\ lidx = 0
    /\ statement_data = EmptyDict
    /\ self = 1
    /\ returned = <<>>
    /\ csv_text = <<>>
    /\ headers = <<>>
    /\ transactions = <<>>
    /\ tidx = 0
    /\ categories = EmptyDict
    /\ DisputeIdle
    /\ WorkersIdle
    /\ balance = Zero
    /\ monthly_payment = Zero
    /\ annual_rate = Zero
    /\ months = NoResult
    /\ horizon = 0
    /\ loop = LoopStart(Zero)
    /\ extra_payment = Zero
    /\ saved = Zero
    /\ current_statement = EmptyDict
    /\ scenarios = <<>>
    /\ sidx = 0
    /\ results = EmptyDict

(* Mutant: the record is kept between calls and only its metadata is set   *)
(* anew.                                                                    *)
ParseBegin_keeps_record ==
    /\ op = "parse"
    /\ pc = "parse_start"
    /\ \E now \in Timestamps :
        statement_data' = Put(Put(Put(statement_data, "raw_text", statement_text),
                                  "parsed_at", now), "parsing_method", "text_extraction")
    /\ lines' = SplitLines(Lower(statement_text))
    /\ lidx' = 0
    /\ pc' = "scan"
    /\ UNCHANGED <<disputeVars, workerVars, csvVars, catVars, payoffVars, simVars, op, statement_text, self, returned>>

(* parse_statement_text up to the loop over the lines. *)
ParseBegin ==
    /\ op = "parse"
    /\ pc = "parse_start"
    /\ \E now \in Timestamps :
        statement_data' = ("raw_text" :> statement_text @@ "parsed_at" :> now
                           @@ "parsing_method" :> "text_extraction")
    /\ lines' = SplitLines(Lower(statement_text))
    /\ lidx' = 0
    /\ pc' = "scan"
    /\ UNCHANGED <<disputeVars, workerVars, csvVars, catVars, payoffVars, simVars, op, statement_text, self, returned>>

(* One iteration of `for line in lines`. *)
ScanStep ==
    /\ op = "parse"
    /\ pc = "scan"
    /\ lidx < Len(lines)
    /\ statement_data' = scan_line(statement_data, lines[lidx + 1])
    /\ lidx' = lidx + 1
    /\ UNCHANGED <<disputeVars, workerVars, csvVars, catVars, payoffVars, simVars, op, pc, statement_text, lines, self, returned>>

(* The loop is over: derive the missing fields and return. *)
ParseReturn ==
    /\ op = "parse"
    /\ pc = "scan"
    /\ lidx = Len(lines)
    /\ IF derived_fields_raise(statement_data)
       THEN /\ statement_data' = derive_available_credit(derive_new_charges(statement_data))
            /\ pc' = "parse_raised"
            /\ returned' = returned
       ELSE /\ statement_data' = calculate_derived_fields(statement_data)
            /\ pc' = "parse_done"
            /\ returned' = Append(returned, [by |-> self, record |-> statement_data'])
    /\ UNCHANGED <<disputeVars, workerVars, csvVars, catVars, payoffVars, simVars, op, statement_text, lines, lidx, self>>

NextParse ==
    \/ ParseBegin
    \/ ScanStep
    \/ ParseReturn

SpecParse == InitParse /\ [][NextParse]_vars

(* Several calls in a row, on one parser or on several: the module-level    *)
(* helper parse_statement_from_text builds a new StatementParser for each   *)
(* call, a caller holding an instance calls the method again.               *)
MaxCalls == 3
Parsers == {1, 2}

RepeatedTexts ==
    { <<"P", "r", "e", "v", "i", "o", "u", "s", " ", "B", "a", "l", "a", "n", "c", "e", ":", " ", "$", "3", "0", "0", ".", "0", "0", "\n", "I", "n", "t", "e", "r", "e", "s", "t", " ", "C", "h", "a", "r", "g", "e", "d", ":", " ", "$", "2", ".", "0", "0">>,
      <<"C", "r", "e", "d", "i", "t", " ", "L", "i", "m", "i", "t", ":", " ", "$", "1", ",", "0", "0", "0", ".", "0", "0", "\n", "C", "u", "r", "r", "e", "n", "t", " ", "B", "a", "l", "a", "n", "c", "e", ":", " ", "$", "2", "0", "0", ".", "0", "0">>,
      <<"P", "a", "y", "m", "e", "n", "t", "s", ":", " ", "$", "5", "0", ".", "0", "0">> }

InitRepeatedParse ==
    /\ op = "parse"
    /\ pc = "parse_start"
    /\ statement_text \in RepeatedTexts
    /\ lines = <<>>
    /\ lidx = 0
    /\ statement_data = EmptyDict
    /\ self \in Parsers
    /\ returned = <<>>
    /\ csv_text = <<>>
    /\ headers = <<>>
    /\ transactions = <<>>
    /\ tidx = 0
    /\ categories = EmptyDict
    /\ DisputeIdle
    /\ WorkersIdle
    /\ balance = Zero
    /\ monthly_payment = Zero
    /\ annual_rate = Zero
    /\ months = NoResult
    /\ horizon = 0
    /\ loop = LoopStart(Zero)
    /\ extra_payment = Zero
    /\ saved = Zero
    /\ current_statement = EmptyDict
    /\ scenarios = <<>>
    /\ sidx = 0
    /\ results = EmptyDict

(* The next call: the locals of the finished call are dead, and ParseBegin  *)
(* assigns every one of them anew.                                          *)
ParseCall ==
    /\ op = "parse"
    /\ pc = "parse_done"
    /\ Len(returned) < MaxCalls
    /\ statement_text' \in RepeatedTexts
    /\ self' \in Parsers
    /\ pc' = "parse_start"
    /\ UNCHANGED <<disputeVars, workerVars, csvVars, catVars, payoffVars, simVars, op, lines, lidx, statement_data, returned>>

NextRepeatedParse ==
    \/ NextParse
    \/ ParseCall

SpecRepeatedParse == InitRepeatedParse /\ [][NextRepeatedParse]_vars

-----------------------------------------------------------------------------
(* StatementParser.parse_csv_transactions and _standardize_transaction.    *)

(* str.split(sep) for a one-character separator. *)
Split(s, sep) ==
    LET breaks == {0, Len(s) + 1} \cup {i \in 1 .. Len(s) : s[i] = sep}
        nth(k) == CHOOSE b \in breaks : Cardinality({j \in breaks : j < b}) = k
    IN  [k \in 1 .. Cardinality(breaks) - 1 |-> SubSeq(s, nth(k - 1) + 1, nth(k) - 1)]

(* str.strip(chars): the characters of `set` removed from both ends. *)
StripSet(s, set) ==
    LET kept == {i \in 1 .. Len(s) : s[i] \notin set}
    IN  IF kept = {} THEN <<>>
        ELSE SubSeq(s, CHOOSE i \in kept : \A j \in kept : i <= j,
                       CHOOSE i \in kept : \A j \in kept : j <= i)

(* str.strip() removes white space. *)
StripChars == {" ", "\t", "\n", "\r"}
Strip(s) == StripSet(s, StripChars)

(* str.replace(old, new) for a one-character old and new of length <= 1. *)
NotDollar(c) == c # "$"
NotCloseParen(c) == c # ")"
OpenParenToMinus(s) == [i \in DOMAIN s |-> IF s[i] = "(" THEN "-" ELSE s[i]]

(* value.replace('$', '').replace(',', '').replace('(', '-').replace(')', '') *)
clean_amount(value) ==
    SelectSeq(OpenParenToMinus(SelectSeq(SelectSeq(value, NotDollar), NotComma)),
              NotCloseParen)

(* A digit part of a float literal: digits, single underscores between them. *)
IsDigitPart(d) ==
    /\ d # <<>>
    /\ \A i \in 1 .. Len(d) : d[i] \in Digits \cup {"_"}
    /\ d[1] # "_" /\ d[Len(d)] # "_"
    /\ \A i \in 1 .. Len(d) - 1 : ~(d[i] = "_" /\ d[i + 1] = "_")

FirstIndex(s, set) ==
    LET hits == {i \in 1 .. Len(s) : s[i] \in set}
    IN  IF hits = {} THEN 0 ELSE CHOOSE i \in hits : \A j \in hits : i <= j

(* Below about 5e-324 a decimal converts to 0.0. *)
FloatMinExponent == -323

word_inf == <<"i", "n", "f">>
word_infinity == <<"i", "n", "f", "i", "n", "i", "t", "y">>
word_nan == <<"n", "a", "n">>

(* float(str): white space around is ignored, then an optional sign and    *)
(* inf, infinity or nan in any case, or a decimal literal with an optional  *)
(* exponent.  None stands for ValueError.  The conversion in stages:        *)
(* the value of the significant digits at a decimal position,               *)
PyFloatScaled(sgn, significant, magnitude, shift) ==
    IF significant = <<>> THEN Some(Zero)
    ELSE IF magnitude > FloatMaxIntegerDigits THEN Some(<<sgn, 0>>)
    ELSE IF magnitude < FloatMinExponent THEN Some(Zero)
    ELSE IF shift >= 0 THEN Some(Norm(sgn * ToInt(significant) * PowerOfTen(shift), 1))
    ELSE Some(Norm(sgn * ToInt(significant), PowerOfTen(-shift)))

(* the digits before and after the point with the exponent applied,         *)
PyFloatValue(sgn, intdigits, fracdigits, exponent) ==
    LET digits == intdigits \o fracdigits
        leading == RunEnd(digits, 1, {"0"}) - 1
    IN  PyFloatScaled(sgn, SubSeq(digits, leading + 1, Len(digits)),
                      Len(intdigits) - leading + exponent, exponent - Len(fracdigits))

PyFloatExponent(exptext) ==
    IF exptext = <<>> THEN 0
    ELSE IF exptext[1] = "-" THEN -ToInt(SelectSeq(exptext, IsDigit))
    ELSE ToInt(SelectSeq(exptext, IsDigit))

(* the test of the literal's form,                                          *)
PyFloatDecimal(sgn, intpart, fracpart, hasexp, exptext) ==
    IF /\ intpart # <<>> \/ fracpart # <<>>
       /\ intpart = <<>> \/ IsDigitPart(intpart)
       /\ fracpart = <<>> \/ IsDigitPart(fracpart)
       /\ ~hasexp \/ IsDigitPart(IF exptext # <<>> /\ exptext[1] \in {"+", "-"}
                                 THEN Tail(exptext) ELSE exptext)
    THEN PyFloatValue(sgn, SelectSeq(intpart, IsDigit), SelectSeq(fracpart, IsDigit),
                      PyFloatExponent(exptext))
    ELSE None

(* the split at the point and at the exponent mark,                         *)
PyFloatMantissa(sgn, mantissa, dot, hasexp, exptext) ==
    PyFloatDecimal(sgn,
                   IF dot = 0 THEN mantissa ELSE SubSeq(mantissa, 1, dot - 1),
                   IF dot = 0 THEN <<>> ELSE SubSeq(mantissa, dot + 1, Len(mantissa)),
                   hasexp, exptext)

PyFloatLiteral(sgn, body, e) ==
    PyFloatMantissa(sgn,
                    IF e = 0 THEN body ELSE SubSeq(body, 1, e - 1),
                    FirstIndex(IF e = 0 THEN body ELSE SubSeq(body, 1, e - 1), {"."}),
                    e # 0,
                    IF e = 0 THEN <<>> ELSE SubSeq(body, e + 1, Len(body)))

(* the special values, and the sign.                                        *)
PyFloatBody(sgn, body) ==
    IF body = word_inf \/ body = word_infinity THEN Some(<<sgn, 0>>)
    ELSE IF body = word_nan THEN Some(FloatNaN)
    ELSE PyFloatLiteral(sgn, body, FirstIndex(body, {"e"}))

PyFloatSigned(t) ==
    IF t # <<>> /\ t[1] \in {"+", "-"}
    THEN PyFloatBody(IF t[1] = "-" THEN -1 ELSE 1, Tail(t))
    ELSE PyFloatBody(1, t)

PyFloat(str) == PyFloatSigned(Lower(Strip(str)))

(* field_mappings: the header names accepted for each standard field, in   *)
(* the order they are tried.                                                *)
h_date == <<"d", "a", "t", "e">>
h_transaction_date == <<"t", "r", "a", "n", "s", "a", "c", "t", "i", "o", "n", " ", "d", "a", "t", "e">>
h_trans_date == <<"t", "r", "a", "n", "s", " ", "d", "a", "t", "e">>
h_merchant == <<"m", "e", "r", "c", "h", "a", "n", "t">>
h_description == <<"d", "e", "s", "c", "r", "i", "p", "t", "i", "o", "n">>
h_vendor == <<"v", "e", "n", "d", "o", "r">>
h_payee == <<"p", "a", "y", "e", "e">>
h_amount == <<"a", "m", "o", "u", "n", "t">>
h_debit == <<"d", "e", "b", "i", "t">>
h_credit == <<"c", "r", "e", "d", "i", "t">>
h_transaction_amount == <<"t", "r", "a", "n", "s", "a", "c", "t", "i", "o", "n", " ", "a", "m", "o", "u", "n", "t">>
h_category == <<"c", "a", "t", "e", "g", "o", "r", "y">>
h_type == <<"t", "y", "p", "e">>
h_classification == <<"c", "l", "a", "s", "s", "i", "f", "i", "c", "a", "t", "i", "o", "n">>
h_memo == <<"m", "e", "m", "o">>
h_details == <<"d", "e", "t", "a", "i", "l", "s">>

field_mappings ==
    [date |-> <<h_date, h_transaction_date, h_trans_date>>,
     merchant |-> <<h_merchant, h_description, h_vendor, h_payee>>,
     amount |-> <<h_amount, h_debit, h_credit, h_transaction_amount>>,
     category |-> <<h_category, h_type, h_classification>>,
     description |-> <<h_description, h_memo, h_details>>]

(* The inner loop for a text field: the first name present in the row      *)
(* gives the value, stripped.                                               *)
resolve_text(transaction, possible_names) ==
    LET present == {k \in 1 .. Len(possible_names) : possible_names[k] \in DOMAIN transaction}
    IN  IF present = {} THEN None
        ELSE Some(Strip(transaction[possible_names[CHOOSE k \in present : \A j \in present : k <= j]]))

(* Mutant: a value float() rejects is stored as 0.0. *)
resolve_amount_or_zero(transaction, possible_names) ==
    LET present == {k \in 1 .. Len(possible_names) : possible_names[k] \in DOMAIN transaction}
        first == CHOOSE k \in present : \A j \in present : k <= j
        value == PyFloat(clean_amount(transaction[possible_names[first]]))
    IN  IF present = {} THEN None
        ELSE IF value.ok THEN value ELSE Some(Zero)

(* The inner loop for the amount: a name whose value float() rejects is     *)
(* passed over (`continue`) and the next name is tried; the first value     *)
(* that converts is taken (`break`).                                        *)
resolve_amount(transaction, possible_names) ==
    LET converts == {k \in 1 .. Len(possible_names) :
                        /\ possible_names[k] \in DOMAIN transaction
                        /\ PyFloat(clean_amount(transaction[possible_names[k]])).ok}
    IN  IF converts = {} THEN None
        ELSE PyFloat(clean_amount(transaction[possible_names[CHOOSE k \in converts : \A j \in converts : k <= j]]))

resolve_field(transaction, standard_field) ==
    IF standard_field = "amount" THEN resolve_amount(transaction, field_mappings.amount)
    ELSE resolve_text(transaction, field_mappings[standard_field])

standardized_fields(transaction) ==
    LET found == {f \in DOMAIN field_mappings : resolve_field(transaction, f).ok}
    IN  [f \in found |-> resolve_field(transaction, f).val]

(* Mutant: the amount alone is required. *)
standardize_transaction_amount_only(transaction) ==
    LET standardized == standardized_fields(transaction)
    IN  IF "amount" \in DOMAIN standardized THEN Some(standardized) ELSE None

standardize_transaction(transaction) ==
    LET standardized == standardized_fields(transaction)
    IN  IF /\ "amount" \in DOMAIN standardized
           /\ ("merchant" \in DOMAIN standardized \/ "description" \in DOMAIN standardized)
        THEN Some(standardized)
        ELSE None

csv_headers(line) ==
    LET tokens == Split(line, ",")
    IN  [i \in DOMAIN tokens |-> Lower(Strip(tokens[i]))]

csv_values(line) ==
    LET tokens == Split(line, ",")
    IN  [i \in DOMAIN tokens |-> StripSet(Strip(tokens[i]), {"\""})]

(* transaction[header] = values[i] for each header in turn: of two equal    *)
(* headers the later one's value stays.                                     *)
csv_transaction(hs, values) ==
    [h \in {hs[i] : i \in DOMAIN hs} |->
        values[CHOOSE i \in DOMAIN hs : hs[i] = h /\ \A j \in DOMAIN hs : hs[j] = h => j <= i]]

(* Mutant: the token count of the row is not compared with the header's;    *)
(* values beyond the header are ignored, missing ones leave their header    *)
(* out.                                                                     *)
csv_row_unchecked(hs, line, ts) ==
    LET values == csv_values(line)
        width == IF Len(values) < Len(hs) THEN Len(values) ELSE Len(hs)
        standardized == standardize_transaction(csv_transaction(SubSeq(hs, 1, width), values))
    IN  IF Strip(line) = <<>> THEN ts
        ELSE IF standardized.ok THEN Append(ts, standardized.val)
        ELSE ts

(* The body of `for line in lines[1:]`. *)
csv_row(hs, line, ts) ==
    LET values == csv_values(line)
        standardized == standardize_transaction(csv_transaction(hs, values))
    IN  IF Strip(line) = <<>> THEN ts
        ELSE IF Len(values) # Len(hs) THEN ts
        ELSE IF standardized.ok THEN Append(ts, standardized.val)
        ELSE ts

(* Explored inputs: a header line followed by up to MaxRows rows. *)
MaxRows == 3

CsvHeaders ==
    { <<"D", "a", "t", "e", ",", "M", "e", "r", "c", "h", "a", "n", "t", ",", "A", "m", "o", "u", "n", "t">>,
      <<"D", "a", "t", "e", ",", "D", "e", "s", "c", "r", "i", "p", "t", "i", "o", "n", ",", "D", "e", "b", "i", "t", ",", "C", "r", "e", "d", "i", "t">>,
      <<"A", "m", "o", "u", "n", "t", ",", "D", "e", "b", "i", "t", ",", "M", "e", "r", "c", "h", "a", "n", "t">>,
      <<"D", "a", "t", "e", ",", "A", "m", "o", "u", "n", "t", ",", "C", "a", "t", "e", "g", "o", "r", "y">> }

CsvRows ==
    { <<"2", "0", "2", "5", "-", "0", "1", "-", "0", "2", ",", "W", "a", "l", "m", "a", "r", "t", ",", "-", "4", "5", ".", "6", "7">>,
      <<"1", "/", "3", ",", "\"", "S", "h", "e", "l", "l", "\"", ",", "(", "1", "2", ".", "3", "4", ")">>,
      <<"1", "/", "4", ",", "C", "a", "f", "e", ",", "a", "b", "c">>,
      <<"1", "/", "5", ",", "S", "t", "o", "r", "e", ",", "$", "1", ",", "2", "3", "4", ".", "5", "6">>,
      <<"a", "b", "c", ",", "5", ".", "0", "0", ",", "S", "h", "o", "p">>,
      <<"1", "/", "2", ",", "R", "e", "n", "t", ",", ",", "5", "0", "0", ".", "0", "0">>,
      <<" ">>,
      <<"1", "/", "6", ",", ",", "n", "a", "n">> }

CsvRowLists == UNION { [1 .. n -> CsvRows] : n \in 0 .. MaxRows }

CsvTexts == UNION { { JoinLines(<<h>> \o rows) : rows \in CsvRowLists } : h \in CsvHeaders }

InitCsv ==
    /\ op = "csv"
    /\ pc = "csv_start"
    /\ csv_text \in CsvTexts
    /\ headers = <<>>
    /\ transactions = <<>>
    /\ tidx = 0
    /\ categories = EmptyDict
    /\ DisputeIdle
    /\ WorkersIdle
    /\ statement_text = <<>>
    /\ lines = <<>>
    /\ lidx = 0
    /\ statement_data = EmptyDict
    /\ self = 1
    /\ returned = <<>>
    /\ balance = Zero
    /\ monthly_payment = Zero
    /\ annual_rate = Zero
    /\ months = NoResult
    /\ horizon = 0
    /\ loop = LoopStart(Zero)
    /\ extra_payment = Zero
    /\ saved = Zero
    /\ current_statement = EmptyDict
    /\ scenarios = <<>>
    /\ sidx = 0
    /\ results = EmptyDict

(* parse_csv_transactions up to the loop over the rows. *)
CsvBegin ==
    /\ op = "csv"
    /\ pc = "csv_start"
    /\ transactions' = <<>>
    /\ LET split == Split(Strip(csv_text), "\n")
       IN  /\ lines' = split
           /\ headers' = csv_headers(split[1])
    /\ lidx' = 1
    /\ pc' = "csv_rows"
    /\ UNCHANGED <<disputeVars, workerVars, payoffVars, simVars, catVars, op, csv_text, statement_text, statement_data, self, returned>>

(* One iteration of `for line in lines[1:]`. *)
CsvRow ==
    /\ op = "csv"
    /\ pc = "csv_rows"
    /\ lidx < Len(lines)
    /\ transactions' = csv_row(headers, lines[lidx + 1], transactions)
    /\ lidx' = lidx + 1
    /\ UNCHANGED <<disputeVars, workerVars, payoffVars, simVars, catVars, op, pc, csv_text, headers, lines, statement_text, statement_data, self, returned>>

CsvReturn ==
    /\ op = "csv"
    /\ pc = "csv_rows"
    /\ lidx = Len(lines)
    /\ pc' = "csv_done"
    /\ UNCHANGED <<disputeVars, workerVars, payoffVars, simVars, parseVars, csvVars, catVars, op>>

NextCsv ==
    \/ CsvBegin
    \/ CsvRow
    \/ CsvReturn

SpecCsv == InitCsv /\ [][NextCsv]_vars

-----------------------------------------------------------------------------
(* StatementParser.categorize_transactions.                                 *)

LowerToUpper ==
    [c \in {UpperToLower[u] : u \in DOMAIN UpperToLower} |->
        CHOOSE u \in DOMAIN UpperToLower : UpperToLower[u] = c]

IsLetter(c) == c \in DOMAIN UpperToLower \/ c \in DOMAIN LowerToUpper

(* str.title(): a letter is upper-cased when no letter precedes it and      *)
(* lower-cased otherwise.                                                   *)
Title(s) ==
    [i \in DOMAIN s |->
        IF i = 1 \/ ~IsLetter(s[i - 1])
        THEN (IF s[i] \in DOMAIN LowerToUpper THEN LowerToUpper[s[i]] ELSE s[i])
        ELSE (IF s[i] \in DOMAIN UpperToLower THEN UpperToLower[s[i]] ELSE s[i])]

cat_dining_restaurants == <<"D", "i", "n", "i", "n", "g", " ", "&", " ", "R", "e", "s", "t", "a", "u", "r", "a", "n", "t", "s">>
cat_gas_auto == <<"G", "a", "s", " ", "&", " ", "A", "u", "t", "o">>
cat_groceries == <<"G", "r", "o", "c", "e", "r", "i", "e", "s">>
cat_shopping_retail == <<"S", "h", "o", "p", "p", "i", "n", "g", " ", "&", " ", "R", "e", "t", "a", "i", "l">>
cat_travel == <<"T", "r", "a", "v", "e", "l">>
cat_utilities == <<"U", "t", "i", "l", "i", "t", "i", "e", "s">>
cat_entertainment == <<"E", "n", "t", "e", "r", "t", "a", "i", "n", "m", "e", "n", "t">>
cat_healthcare == <<"H", "e", "a", "l", "t", "h", "c", "a", "r", "e">>
cat_other == <<"O", "t", "h", "e", "r">>

(* Mutant: 'Shopping & Retail' is entered before 'Groceries'. *)
category_keywords_shopping_first ==
    <<
       [name |-> cat_dining_restaurants,
        keywords |-> <<<<"r", "e", "s", "t", "a", "u", "r", "a", "n", "t">>,
                      <<"d", "i", "n", "i", "n", "g">>,
                      <<"f", "o", "o", "d">>,
                      <<"c", "a", "f", "e">>,
                      <<"p", "i", "z", "z", "a">>,
                      <<"b", "u", "r", "g", "e", "r">>,
                      <<"s", "t", "a", "r", "b", "u", "c", "k", "s">>>>],
       [name |-> cat_gas_auto,
        keywords |-> <<<<"g", "a", "s">>,
                      <<"s", "h", "e", "l", "l">>,
                      <<"c", "h", "e", "v", "r", "o", "n">>,
                      <<"e", "x", "x", "o", "n">>,
                      <<"b", "p">>,
                      <<"a", "u", "t", "o">>,
                      <<"c", "a", "r">>>>],
       [name |-> cat_shopping_retail,
        keywords |-> <<<<"a", "m", "a", "z", "o", "n">>,
                      <<"t", "a", "r", "g", "e", "t">>,
                      <<"w", "a", "l", "m", "a", "r", "t">>,
                      <<"m", "a", "l", "l">>,
                      <<"s", "t", "o", "r", "e">>,
                      <<"r", "e", "t", "a", "i", "l">>,
                      <<"s", "h", "o", "p", "p", "i", "n", "g">>>>],
       [name |-> cat_groceries,
        keywords |-> <<<<"g", "r", "o", "c", "e", "r", "y">>,
                      <<"s", "u", "p", "e", "r", "m", "a", "r", "k", "e", "t">>,
                      <<"w", "h", "o", "l", "e", " ", "f", "o", "o", "d", "s">>,
                      <<"s", "a", "f", "e", "w", "a", "y">>,
                      <<"k", "r", "o", "g", "e", "r">>,
                      <<"w", "a", "l", "m", "a", "r", "t">>>>],
       [name |-> cat_travel,
        keywords |-> <<<<"a", "i", "r", "l", "i", "n", "e">>,
                      <<"h", "o", "t", "e", "l">>,
                      <<"t", "r", "a", "v", "e", "l">>,
                      <<"u", "b", "e", "r">>,
                      <<"l", "y", "f", "t">>,
                      <<"r", "e", "n", "t", "a", "l">>,
                      <<"a", "i", "r", "p", "o", "r", "t">>>>],
       [name |-> cat_utilities,
        keywords |-> <<<<"e", "l", "e", "c", "t", "r", "i", "c">>,
                      <<"g", "a", "s", " ", "c", "o", "m", "p", "a", "n", "y">>,
                      <<"w", "a", "t", "e", "r">>,
                      <<"i", "n", "t", "e", "r", "n", "e", "t">>,
                      <<"p", "h", "o", "n", "e">>,
                      <<"c", "a", "b", "l", "e">>>>],
       [name |-> cat_entertainment,
        keywords |-> <<<<"m", "o", "v", "i", "e">>,
                      <<"t", "h", "e", "a", "t", "e", "r">>,
                      <<"n", "e", "t", "f", "l", "i", "x">>,
                      <<"s", "p", "o", "t", "i", "f", "y">>,
                      <<"g", "a", "m", "e">>,
                      <<"e", "n", "t", "e", "r", "t", "a", "i", "n", "m", "e", "n", "t">>>>],
       [name |-> cat_healthcare,
        keywords |-> <<<<"m", "e", "d", "i", "c", "a", "l">>,
                      <<"d", "o", "c", "t", "o", "r">>,
                      <<"p", "h", "a", "r", "m", "a", "c", "y">>,
                      <<"h", "o", "s", "p", "i", "t", "a", "l">>,
                      <<"h", "e", "a", "l", "t", "h">>>>],
       [name |-> cat_other,
        keywords |-> <<>>]
    >>

(* category_keywords, in the order the dict literal lists its entries. *)
category_keywords ==
    <<
       [name |-> cat_dining_restaurants,
        keywords |-> <<<<"r", "e", "s", "t", "a", "u", "r", "a", "n", "t">>,
                      <<"d", "i", "n", "i", "n", "g">>,
                      <<"f", "o", "o", "d">>,
                      <<"c", "a", "f", "e">>,
                      <<"p", "i", "z", "z", "a">>,
                      <<"b", "u", "r", "g", "e", "r">>,
                      <<"s", "t", "a", "r", "b", "u", "c", "k", "s">>>>],
       [name |-> cat_gas_auto,
        keywords |-> <<<<"g", "a", "s">>,
                      <<"s", "h", "e", "l", "l">>,
                      <<"c", "h", "e", "v", "r", "o", "n">>,
                      <<"e", "x", "x", "o", "n">>,
                      <<"b", "p">>,
                      <<"a", "u", "t", "o">>,
                      <<"c", "a", "r">>>>],
       [name |-> cat_groceries,
        keywords |-> <<<<"g", "r", "o", "c", "e", "r", "y">>,
                      <<"s", "u", "p", "e", "r", "m", "a", "r", "k", "e", "t">>,
                      <<"w", "h", "o", "l", "e", " ", "f", "o", "o", "d", "s">>,
                      <<"s", "a", "f", "e", "w", "a", "y">>,
                      <<"k", "r", "o", "g", "e", "r">>,
                      <<"w", "a", "l", "m", "a", "r", "t">>>>],
       [name |-> cat_shopping_retail,
        keywords |-> <<<<"a", "m", "a", "z", "o", "n">>,
                      <<"t", "a", "r", "g", "e", "t">>,
                      <<"w", "a", "l", "m", "a", "r", "t">>,
                      <<"m", "a", "l", "l">>,
                      <<"s", "t", "o", "r", "e">>,
                      <<"r", "e", "t", "a", "i", "l">>,
                      <<"s", "h", "o", "p", "p", "i", "n", "g">>>>],
       [name |-> cat_travel,
        keywords |-> <<<<"a", "i", "r", "l", "i", "n", "e">>,
                      <<"h", "o", "t", "e", "l">>,
                      <<"t", "r", "a", "v", "e", "l">>,
                      <<"u", "b", "e", "r">>,
                      <<"l", "y", "f", "t">>,
                      <<"r", "e", "n", "t", "a", "l">>,
                      <<"a", "i", "r", "p", "o", "r", "t">>>>],
       [name |-> cat_utilities,
        keywords |-> <<<<"e", "l", "e", "c", "t", "r", "i", "c">>,
                      <<"g", "a", "s", " ", "c", "o", "m", "p", "a", "n", "y">>,
                      <<"w", "a", "t", "e", "r">>,
                      <<"i", "n", "t", "e", "r", "n", "e", "t">>,
                      <<"p", "h", "o", "n", "e">>,
                      <<"c", "a", "b", "l", "e">>>>],
       [name |-> cat_entertainment,
        keywords |-> <<<<"m", "o", "v", "i", "e">>,
                      <<"t", "h", "e", "a", "t", "e", "r">>,
                      <<"n", "e", "t", "f", "l", "i", "x">>,
                      <<"s", "p", "o", "t", "i", "f", "y">>,
                      <<"g", "a", "m", "e">>,
                      <<"e", "n", "t", "e", "r", "t", "a", "i", "n", "m", "e", "n", "t">>>>],
       [name |-> cat_healthcare,
        keywords |-> <<<<"m", "e", "d", "i", "c", "a", "l">>,
                      <<"d", "o", "c", "t", "o", "r">>,
                      <<"p", "h", "a", "r", "m", "a", "c", "y">>,
                      <<"h", "o", "s", "p", "i", "t", "a", "l">>,
                      <<"h", "e", "a", "l", "t", "h">>>>],
       [name |-> cat_other,
        keywords |-> <<>>]
    >>

(* The loop over category_keywords from entry k on: the first entry with a  *)
(* keyword in the text, 'Other' when the table is exhausted.                *)
RECURSIVE infer_category(_, _)
infer_category(text_to_check, k) ==
    IF k > Len(category_keywords) THEN cat_other
    ELSE IF \E j \in 1 .. Len(category_keywords[k].keywords) :
                Contains(text_to_check, category_keywords[k].keywords[j])
         THEN category_keywords[k].name
         ELSE infer_category(text_to_check, k + 1)

text_to_check(transaction) ==
    Lower(Get(transaction, "merchant", <<>>)) \o <<" ">>
        \o Lower(Get(transaction, "description", <<>>))

(* Mutant: the keywords are consulted first, the given category only when   *)
(* none matches.                                                            *)
resolve_category_keywords_first(transaction) ==
    LET existing_category == Lower(Get(transaction, "category", <<>>))
        inferred == infer_category(text_to_check(transaction), 1)
    IN  IF inferred # cat_other \/ existing_category = <<>> THEN inferred
        ELSE Title(existing_category)

resolve_category(transaction) ==
    LET existing_category == Lower(Get(transaction, "category", <<>>))
    IN  IF existing_category # <<>> THEN Title(existing_category)
        ELSE infer_category(text_to_check(transaction), 1)

(* Mutant: the signed amount is accumulated. *)
transaction_amount_signed(transaction) == Get(transaction, "amount", Zero)

(* abs(transaction.get('amount', 0)) *)
transaction_amount(transaction) ==
    LET amount == Get(transaction, "amount", Zero)
    IN  <<Abs(amount[1]), amount[2]>>

(* Explored inputs: up to MaxTransactions transactions of the pool. *)
MaxTransactions == 3

TransactionPool ==
    { ("amount" :> <<-4567, 100>> @@ "merchant" :> <<"W", "a", "l", "m", "a", "r", "t">>),
      ("amount" :> <<617, 50>> @@ "merchant" :> <<"S", "h", "e", "l", "l">> @@ "description" :> <<"g", "a", "s", " ", "s", "t", "a", "t", "i", "o", "n">> @@ "category" :> <<>>),
      ("amount" :> <<20, 1>> @@ "merchant" :> <<"S", "t", "a", "r", "b", "u", "c", "k", "s">> @@ "category" :> <<"T", "R", "A", "V", "E", "L">>),
      ("amount" :> <<-5, 1>> @@ "merchant" :> <<"C", "o", "r", "n", "e", "r">> @@ "description" :> <<"m", "i", "s", "c">>),
      ("amount" :> <<7, 1>> @@ "merchant" :> <<"x">> @@ "category" :> <<"j", "o", "e", "'", "s", " ", "d", "i", "n", "e", "r">>),
      ("merchant" :> <<"W", "h", "o", "l", "e">> @@ "description" :> <<"F", "o", "o", "d", "s", " ", "M", "a", "r", "k", "e", "t">>),
      ("amount" :> <<30, 1>> @@ "merchant" :> <<"G", "a", "s", " ", "C", "o", "m", "p", "a", "n", "y">> @@ "description" :> <<"u", "t", "i", "l", "i", "t", "i", "e", "s">>),
      ("amount" :> <<3, 1>> @@ "category" :> <<"g", "r", "o", "c", "e", "r", "i", "e", "s">> @@ "description" :> <<"r", "e", "s", "t", "a", "u", "r", "a", "n", "t">>) }

(* The body of `for transaction in transactions`. *)
accumulate(totals, transaction) ==
    LET amount == transaction_amount(transaction)
        category == resolve_category(transaction)
    IN  IF category \in DOMAIN totals
        THEN Put(totals, category, FAdd(totals[category], amount))
        ELSE Put(totals, category, amount)

InitCategorize ==
    /\ op = "categorize"
    /\ pc = "cat_loop"
    /\ transactions \in UNION { [1 .. n -> TransactionPool] : n \in 0 .. MaxTransactions }
    /\ tidx = 0
    /\ categories = EmptyDict
    /\ DisputeIdle
    /\ WorkersIdle
    /\ csv_text = <<>>
    /\ headers = <<>>
    /\ statement_text = <<>>
    /\ lines = <<>>
    /\ lidx = 0
    /\ statement_data = EmptyDict
    /\ self = 1
    /\ returned = <<>>
    /\ balance = Zero
    /\ monthly_payment = Zero
    /\ annual_rate = Zero
    /\ months = NoResult
    /\ horizon = 0
    /\ loop = LoopStart(Zero)
    /\ extra_payment = Zero
    /\ saved = Zero
    /\ current_statement = EmptyDict
    /\ scenarios = <<>>
    /\ sidx = 0
    /\ results = EmptyDict

(* One iteration of `for transaction in transactions`. *)
CategorizeStep ==
    /\ op = "categorize"
    /\ pc = "cat_loop"
    /\ tidx < Len(transactions)
    /\ categories' = accumulate(categories, transactions[tidx + 1])
    /\ tidx' = tidx + 1
    /\ UNCHANGED <<disputeVars, workerVars, payoffVars, simVars, parseVars, csvVars, op, pc>>

CategorizeReturn ==
    /\ op = "categorize"
    /\ pc = "cat_loop"
    /\ tidx = Len(transactions)
    /\ pc' = "cat_done"
    /\ UNCHANGED <<disputeVars, workerVars, payoffVars, simVars, parseVars, csvVars, catVars, op>>

NextCategorize ==
    \/ CategorizeStep
    \/ CategorizeReturn

SpecCategorize == InitCategorize /\ [][NextCategorize]_vars

-----------------------------------------------------------------------------
(* Calls made by independent workers.  The workers share the instance the   *)
(* methods are called on; every call has its own frame of locals.  A step   *)
(* of a worker is the start of a call, one iteration of its loop, or its    *)
(* return.                                                                  *)
MaxWorkerCalls == 2

(* The values of the finance assistant's variables in the other runs. *)
FinanceIdle ==
    /\ balance = Zero
    /\ monthly_payment = Zero
    /\ annual_rate = Zero
    /\ months = NoResult
    /\ horizon = 0
    /\ loop = LoopStart(Zero)
    /\ extra_payment = Zero
    /\ saved = Zero
    /\ current_statement = EmptyDict
    /\ scenarios = <<>>
    /\ sidx = 0
    /\ results = EmptyDict
    /\ statement_text = <<>>
    /\ lines = <<>>
    /\ lidx = 0
    /\ statement_data = EmptyDict
    /\ self = 1
    /\ returned = <<>>
    /\ csv_text = <<>>
    /\ headers = <<>>
    /\ transactions = <<>>
    /\ tidx = 0
    /\ categories = EmptyDict

op_parse == "parse_statement_text"
op_csv == "parse_csv_transactions"
op_categorize == "categorize_transactions"
op_simulate == "simulate_spending_changes"

(* Mutant: the accumulator of the previous call of the same method is kept. *)
call_begin_keeps_accumulator(fr, input, now) ==
    LET kept == fr.pc = "returned" /\ fr.operation = input.operation
    IN  IF input.operation = op_parse
        THEN [pc |-> "running", operation |-> op_parse, k |-> 0,
              items |-> SplitLines(Lower(input.statement_text)), headers |-> <<>>,
              acc |-> Put(Put(Put(IF kept THEN fr.acc ELSE EmptyDict,
                                  "raw_text", input.statement_text),
                              "parsed_at", now), "parsing_method", "text_extraction"),
              result |-> <<>>]
        ELSE IF input.operation = op_csv
        THEN LET split == Split(Strip(input.csv_text), "\n")
             IN  [pc |-> "running", operation |-> op_csv, k |-> 1,
                  items |-> split, headers |-> csv_headers(split[1]),
                  acc |-> IF kept THEN fr.acc ELSE <<>>, result |-> <<>>]
        ELSE IF input.operation = op_categorize
        THEN [pc |-> "running", operation |-> op_categorize, k |-> 0,
              items |-> input.transactions, headers |-> <<>>,
              acc |-> IF kept THEN fr.acc ELSE EmptyDict, result |-> <<>>]
        ELSE [pc |-> "running", operation |-> op_simulate, k |-> 0,
              items |-> input.scenarios, headers |-> <<>>,
              acc |-> IF kept THEN fr.acc ELSE EmptyDict, result |-> <<>>]

(* The locals of a call when its loop is about to start: the accumulator is *)
(* a new object, the sequence looped over is split off the text or is the   *)
(* argument itself.  The frame a worker used before plays no part.          *)
call_begin(fr, input, now) ==
    IF input.operation = op_parse
    THEN [pc |-> "running", operation |-> op_parse, k |-> 0,
          items |-> SplitLines(Lower(input.statement_text)), headers |-> <<>>,
          acc |-> ("raw_text" :> input.statement_text @@ "parsed_at" :> now
                   @@ "parsing_method" :> "text_extraction"),
          result |-> <<>>]
    ELSE IF input.operation = op_csv
    THEN LET split == Split(Strip(input.csv_text), "\n")
         IN  [pc |-> "running", operation |-> op_csv, k |-> 1,
              items |-> split, headers |-> csv_headers(split[1]),
              acc |-> <<>>, result |-> <<>>]
    ELSE IF input.operation = op_categorize
    THEN [pc |-> "running", operation |-> op_categorize, k |-> 0,
          items |-> input.transactions, headers |-> <<>>,
          acc |-> EmptyDict, result |-> <<>>]
    ELSE [pc |-> "running", operation |-> op_simulate, k |-> 0,
          items |-> input.scenarios, headers |-> <<>>,
          acc |-> EmptyDict, result |-> <<>>]

(* One iteration of the loop of the call. *)
call_step(fr, input) ==
    LET item == fr.items[fr.k + 1]
    IN  [fr EXCEPT !.k = fr.k + 1,
                   !.acc = IF fr.operation = op_parse THEN scan_line(fr.acc, item)
                           ELSE IF fr.operation = op_csv THEN csv_row(fr.headers, item, fr.acc)
                           ELSE IF fr.operation = op_categorize THEN accumulate(fr.acc, item)
                           ELSE Put(fr.acc, scenario_name(item),
                                    scenario_result(input.current_statement, item))]

(* The end of the call: parse_statement_text derives the missing fields,    *)
(* which may raise; the others return their accumulator.                    *)
call_return(fr) ==
    IF fr.operation = op_parse
    THEN IF derived_fields_raise(fr.acc)
         THEN [fr EXCEPT !.pc = "raised",
                         !.acc = derive_available_credit(derive_new_charges(fr.acc))]
         ELSE [fr EXCEPT !.pc = "returned",
                         !.acc = calculate_derived_fields(fr.acc),
                         !.result = calculate_derived_fields(fr.acc)]
    ELSE [fr EXCEPT !.pc = "returned", !.result = fr.acc]

(* Explored inputs of the workers' calls. *)
WorkerCsvTexts ==
    { <<"D", "a", "t", "e", ",", "M", "e", "r", "c", "h", "a", "n", "t", ",", "A", "m", "o", "u", "n", "t", "\n", "2", "0", "2", "5", "-", "0", "1", "-", "0", "2", ",", "W", "a", "l", "m", "a", "r", "t", ",", "-", "4", "5", ".", "6", "7", "\n", "1", "/", "4", ",", "C", "a", "f", "e", ",", "a", "b", "c">>,
      <<"D", "a", "t", "e", ",", "A", "m", "o", "u", "n", "t", ",", "C", "a", "t", "e", "g", "o", "r", "y", "\n", "a", "b", "c", ",", "5", ".", "0", "0", ",", "S", "h", "o", "p">> }

WorkerTransactions ==
    { << ("amount" :> <<-4567, 100>> @@ "merchant" :> <<"W", "a", "l", "m", "a", "r", "t">>),
         ("amount" :> <<20, 1>> @@ "merchant" :> <<"S", "t", "a", "r", "b", "u", "c", "k", "s">> @@ "category" :> <<"T", "R", "A", "V", "E", "L">>) >>,
      << ("amount" :> <<-5, 1>> @@ "merchant" :> <<"C", "o", "r", "n", "e", "r">> @@ "description" :> <<"m", "i", "s", "c">>) >> }

WorkerScenarios ==
    { << [name |-> "A", monthly_change |-> R(3)], [name |-> "B", monthly_change |-> R(-2)] >>,
      << [name |-> "A", monthly_change |-> R(-2), duration_months |-> 2] >> }

WorkerStatement == [current_balance |-> R(8), minimum_payment |-> R(2), interest_rate |-> R(6)]

WorkerInputs ==
    { [operation |-> op_parse, statement_text |-> t] : t \in RepeatedTexts }
    \cup { [operation |-> op_csv, csv_text |-> t] : t \in WorkerCsvTexts }
    \cup { [operation |-> op_categorize, transactions |-> ts] : ts \in WorkerTransactions }
    \cup { [operation |-> op_simulate, current_statement |-> WorkerStatement, scenarios |-> scs] :
               scs \in WorkerScenarios }

InitWorkers ==
    /\ op = "workers"
    /\ pc = "workers"
    /\ FinanceIdle
    /\ DisputeIdle
    /\ WorkersIdle

WorkerBusy(w) == frames[w].pc = "running"

(* What a step of worker w records in the callers' books: the calls of the  *)
(* workers that are inside a call at this moment have overlapped.           *)
Overlap(w, book) ==
    IF \E v \in Workers \ {w} : WorkerBusy(v)
    THEN [v \in Workers |-> IF v = w \/ WorkerBusy(v)
                            THEN [book[v] EXCEPT !.overlapped = TRUE]
                            ELSE book[v]]
    ELSE book

(* Worker w calls one of the four methods on an input of its own. *)
WorkerCall(w) ==
    /\ op = "workers"
    /\ ~WorkerBusy(w)
    /\ calls[w].count < MaxWorkerCalls
    /\ \E input \in WorkerInputs, now \in Timestamps :
        /\ frames' = [frames EXCEPT ![w] = call_begin(frames[w], input, now)]
        /\ calls' = Overlap(w, [calls EXCEPT ![w] = [count |-> calls[w].count + 1,
                                                     input |-> input, now |-> now,
                                                     overlapped |-> FALSE]])
    /\ UNCHANGED <<payoffVars, simVars, parseVars, csvVars, catVars, disputeVars,
                   op, pc, instance>>

WorkerStep(w) ==
    /\ op = "workers"
    /\ WorkerBusy(w)
    /\ frames[w].k < Len(frames[w].items)
    /\ frames' = [frames EXCEPT ![w] = call_step(frames[w], calls[w].input)]
    /\ calls' = Overlap(w, calls)
    /\ UNCHANGED <<payoffVars, simVars, parseVars, csvVars, catVars, disputeVars,
                   op, pc, instance>>

WorkerReturn(w) ==
    /\ op = "workers"
    /\ WorkerBusy(w)
    /\ frames[w].k = Len(frames[w].items)
    /\ frames' = [frames EXCEPT ![w] = call_return(frames[w])]
    /\ calls' = Overlap(w, calls)
    /\ UNCHANGED <<payoffVars, simVars, parseVars, csvVars, catVars, disputeVars,
                   op, pc, instance>>

NextWorkers ==
    \/ \E w \in Workers : WorkerCall(w)
    \/ \E w \in Workers : WorkerStep(w)
    \/ \E w \in Workers : WorkerReturn(w)

SpecWorkers == InitWorkers /\ [][NextWorkers]_vars

-----------------------------------------------------------------------------
(* DisputeResolutionAgent.classify_dispute: agent/dispute_agent.py          *)

dispute_fraud == <<"f", "r", "a", "u", "d">>
dispute_billing == <<"b", "i", "l", "l", "i", "n", "g">>
dispute_service == <<"s", "e", "r", "v", "i", "c", "e">>

client_not_available == <<"B", "e", "d", "r", "o", "c", "k", " ", "c", "l", "i", "e", "n", "t", " ", "n", "o", "t", " ", "a", "v", "a", "i", "l", "a", "b", "l", "e">>
error_prefix == <<"E", "r", "r", "o", "r", ":", " ">>

(* Mutant: an exception of the model call is not caught. *)
invoke_claude_uncaught(runtime, outcome) ==
    IF runtime = "None" THEN Some(client_not_available)
    ELSE IF outcome.raises THEN None
    ELSE Some(outcome.text)

(* _invoke_claude: the text of the model's reply, or the message that       *)
(* stands in for it.  None would be an exception leaving the method.        *)
invoke_claude(runtime, outcome) ==
    IF runtime = "None" THEN Some(client_not_available)
    ELSE IF outcome.raises THEN Some(error_prefix \o outcome.text)
    ELSE Some(outcome.text)

(* The normalisation and the if/elif chain of classify_dispute. *)
classify(text) ==
    LET normalized == Lower(Strip(text))
    IN  IF Contains(normalized, dispute_fraud) THEN dispute_fraud
        ELSE IF Contains(normalized, dispute_billing) THEN dispute_billing
        ELSE IF Contains(normalized, dispute_service) THEN dispute_service
        ELSE dispute_billing

(* Explored replies: up to MaxReplyWords pieces of text put together, as    *)
(* the text of the model's answer or as the message of the exception the    *)
(* call raises.                                                             *)
MaxReplyWords == 2

ReplyWords ==
    { <<"f", "r", "a", "u", "d">>,
      <<"F", "r", "a", "u", "d">>,
      <<"B", "I", "L", "L", "I", "N", "G">>,
      <<"b", "i", "l", "l", "i", "n", "g">>,
      <<"s", "e", "r", "v", "i", "c", "e">>,
      <<"S", "e", "r", "v", "i", "c", "e">>,
      <<"u", "n", "k", "n", "o", "w", "n">>,
      <<" ">>,
      <<"\n">>,
      <<".">> }

RECURSIVE Concat(_)
Concat(ws) == IF ws = <<>> THEN <<>> ELSE ws[1] \o Concat(Tail(ws))

ReplyTexts == { Concat(ws) : ws \in UNION { [1 .. n -> ReplyWords] : n \in 0 .. MaxReplyWords } }

InitClassify ==
    /\ op = "classify"
    /\ pc = "classify_start"
    /\ bedrock_runtime \in {"client", "None"}
    /\ reply \in [raises : BOOLEAN, text : ReplyTexts]
    /\ response = <<>>
    /\ classification = <<>>
    /\ FinanceIdle
    /\ WorkersIdle

(* classify_dispute builds the prompt from its two arguments and calls      *)
(* _invoke_claude; the reply does not depend on the prompt in any known way. *)
InvokeClaude ==
    /\ op = "classify"
    /\ pc = "classify_start"
    /\ LET returned_text == invoke_claude(bedrock_runtime, reply)
       IN  IF returned_text.ok
           THEN response' = returned_text.val /\ pc' = "classify_response"
           ELSE response' = response /\ pc' = "classify_raised"
    /\ UNCHANGED <<payoffVars, simVars, parseVars, csvVars, catVars, workerVars,
                   op, bedrock_runtime, reply, classification>>

Classify ==
    /\ op = "classify"
    /\ pc = "classify_response"
    /\ classification' = classify(response)
    /\ pc' = "classify_done"
    /\ UNCHANGED <<payoffVars, simVars, parseVars, csvVars, catVars, workerVars,
                   op, bedrock_runtime, reply, response>>

NextClassify ==
    \/ InvokeClaude
    \/ Classify

SpecClassify == InitClassify /\ [][NextClassify]_vars

-----------------------------------------------------------------------------
(* Properties of the payoff simulator.                                      *)

(* The payment does not exceed one month's interest: 12 * p <= b * r. *)
InsufficientPayment == RLeq(RMul(R(12), monthly_payment), RMul(balance, annual_rate))

(* C1: _calculate_payoff_time returns the sentinel +infinity, and does not  *)
(* raise, exactly when monthly_payment <= balance * (annual_rate / 12); the *)
(* closed form is evaluated only when the payment exceeds that interest.    *)
C1_InsufficientPaymentSentinel ==
    pc = "payoff_done" =>
        /\ InsufficientPayment => months = Infinity
        /\ months # Infinity => ~InsufficientPayment

(* C1 witness: the payment equals the first month's interest exactly and    *)
(* the sentinel was returned.                                               *)
C1_Witness ==
    /\ pc = "payoff_done"
    /\ monthly_payment # Zero
    /\ RMul(R(12), monthly_payment) = RMul(balance, annual_rate)
    /\ months = Infinity

(* C2 as stated, read at the end of a run that computed the payoff time and *)
(* then ran total_interest for round(result) steps: the result was finite   *)
(* and positive, the accumulated interest is >= 0 and the simulated balance *)
(* is <= 0.                                                                 *)
C2_PayoffConvergence ==
    pc = "ti_payoff_done" =>
        /\ IsFinite(months) /\ months.sign = 1
        /\ RLeq(Zero, loop.total_interest)
        /\ RLeq(loop.current_balance, Zero)

(* C2 amended: for balance > 0, annual_rate > 0 and a payment above the     *)
(* first month's interest the result is finite and positive; the interest   *)
(* accumulated over round(result) steps is >= 0, and the simulated balance  *)
(* is <= 0 at the last step exactly when round() did not round the result   *)
(* down.                                                                    *)
C2_PayoffConvergenceAmended ==
    LET covered == RLt(Zero, balance) /\ RLt(Zero, annual_rate) /\ ~InsufficientPayment
    IN  /\ pc = "payoff_done" /\ covered =>
                IsFinite(months) /\ months.sign = 1
        /\ pc = "ti_payoff_done" /\ covered =>
                /\ RLeq(Zero, loop.total_interest)
                /\ RLeq(loop.current_balance, Zero) <=> MagnitudeLeq(months, horizon)

(* C2 witness: a positive balance paid off in the last of round(result) >= 2 *)
(* simulated steps.                                                         *)
C2_Witness ==
    /\ pc = "ti_payoff_done"
    /\ RLt(Zero, balance) /\ RLt(Zero, annual_rate)
    /\ horizon >= 2
    /\ loop.i = horizon
    /\ loop.broke


(* C5: _calculate_interest_saved returns max(0, I0 - I1), I0 the interest   *)
(* of the simulation paying 2% of the balance and I1 that of the simulation *)
(* paying 2% of the balance plus extra_payment, both over the same horizon; *)
(* the result is never negative.                                            *)
C5_InterestSavedClamped ==
    pc = "saved_done" =>
        LET baseline == RDiv(balance, R(50))
            I0 == calculate_total_interest(balance, baseline, annual_rate, horizon)
            I1 == calculate_total_interest(balance, RAdd(baseline, extra_payment),
                                           annual_rate, horizon)
        IN  /\ saved = (IF RLeq(I0, I1) THEN Zero ELSE RSub(I0, I1))
            /\ saved[1] >= 0

(* C5 witness: a negative extra payment makes the enhanced simulation       *)
(* accrue more interest, and the result is clamped to 0.                    *)
C5_Witness ==
    /\ pc = "saved_done"
    /\ horizon >= 2
    /\ RLt(calculate_total_interest(balance, RDiv(balance, R(50)), annual_rate, horizon),
           calculate_total_interest(balance, RAdd(RDiv(balance, R(50)), extra_payment),
                                    annual_rate, horizon))
    /\ saved = Zero

(* The month-by-month simulation, stated from the recurrence: the balance   *)
(* at the start of month j + 1 and the interest charged in months 1 .. k.   *)
MonthlyRate == RDiv(annual_rate, R(12))

RECURSIVE BalanceAfter(_)
BalanceAfter(j) ==
    IF j = 0 THEN balance
    ELSE RSub(RMul(BalanceAfter(j - 1), RAdd(One, MonthlyRate)), monthly_payment)

RECURSIVE InterestOver(_)
InterestOver(k) ==
    IF k = 0 THEN Zero
    ELSE RAdd(InterestOver(k - 1), RMul(BalanceAfter(k - 1), MonthlyRate))

InTotalInterest == op = "payoff" /\ pc \in {"ti_loop", "ti_payoff_loop"}
TotalInterestDone == op = "payoff" /\ pc \in {"ti_done", "ti_payoff_done"}
PaidOffAfter(j) == RLeq(BalanceAfter(j), Zero)

(* C25: _calculate_total_interest executes at most `months` passes of the   *)
(* loop and none when months <= 0; a pass is executed only when no earlier  *)
(* pass left a balance <= 0, and the loop ends only at the horizon or after *)
(* such a pass; what it has accumulated, and returns, is the sum of         *)
(* balance * monthly_rate over the passes executed; every call returns.     *)
C25_TotalInterestTerminates ==
    /\ [](InTotalInterest \/ TotalInterestDone =>
            /\ loop.i >= 0
            /\ loop.i <= (IF horizon > 0 THEN horizon ELSE 0)
            /\ \A j \in 1 .. loop.i - 1 : ~PaidOffAfter(j)
            /\ loop.current_balance = BalanceAfter(loop.i)
            /\ loop.total_interest = InterestOver(loop.i))
    /\ [](TotalInterestDone =>
            \/ loop.i = (IF horizon > 0 THEN horizon ELSE 0)
            \/ loop.i >= 1 /\ PaidOffAfter(loop.i))
    /\ (InTotalInterest ~> TotalInterestDone)

(* C25 witness: a call with a horizon of four months has returned after its *)
(* third pass, the first to leave a balance <= 0, with interest accumulated. *)
C25_Witness ==
    /\ TotalInterestDone
    /\ horizon = 4
    /\ loop.i = 3
    /\ PaidOffAfter(3)
    /\ RLt(Zero, loop.total_interest)

HorizonSteps == IF horizon > 0 THEN horizon ELSE 0

(* C26: with balance > 0 and monthly_payment <= balance * monthly_rate no   *)
(* pass of the loop lowers the simulated balance, the loop never breaks,    *)
(* and the call returns after all `months` passes.                          *)
C26_InsufficientPaymentGrows ==
    /\ [][TotalInterestStep /\ RLt(Zero, balance) /\ InsufficientPayment =>
            RLeq(loop.current_balance, loop'.current_balance)]_vars
    /\ [](InTotalInterest \/ TotalInterestDone =>
            (RLt(Zero, balance) /\ InsufficientPayment => ~loop.broke))
    /\ (InTotalInterest /\ RLt(Zero, balance) /\ InsufficientPayment
            ~> TotalInterestDone /\ loop.i = HorizonSteps)

(* C26 witness: a call with a payment below the month's interest has        *)
(* returned after all four passes of its horizon with a larger balance.     *)
C26_Witness ==
    /\ TotalInterestDone
    /\ RLt(Zero, balance)
    /\ RLt(Zero, monthly_payment)
    /\ RLt(RMul(R(12), monthly_payment), RMul(balance, annual_rate))
    /\ horizon = 4
    /\ loop.i = 4
    /\ RLt(balance, loop.current_balance)

(* Number of months within which the explored inputs are paid off. *)
PayoffCap == 10

SufficientPayment ==
    /\ RLt(Zero, balance)
    /\ RLeq(Zero, annual_rate)
    /\ RLt(RMul(balance, annual_rate), RMul(R(12), monthly_payment))

PayoffMonths(cap) == { j \in 1 .. cap : PaidOffAfter(j) }

(* C27: with balance > 0, annual_rate >= 0 and monthly_payment > balance *  *)
(* monthly_rate every pass of the loop lowers the simulated balance; the    *)
(* balance is <= 0 after finitely many months, and with a horizon of at     *)
(* least that many months the loop breaks after exactly that many passes.   *)
C27_SufficientPaymentPaysOff ==
    /\ [][TotalInterestStep /\ SufficientPayment =>
            RLt(loop'.current_balance, loop.current_balance)]_vars
    /\ [](SufficientPayment => \E j \in 1 .. PayoffCap : PaidOffAfter(j))
    /\ [](TotalInterestDone /\ SufficientPayment /\ PayoffMonths(horizon) # {} =>
            /\ loop.broke
            /\ loop.i \in PayoffMonths(horizon)
            /\ \A j \in PayoffMonths(horizon) : loop.i <= j)
    /\ (InTotalInterest /\ SufficientPayment /\ PayoffMonths(horizon) # {}
            ~> TotalInterestDone /\ loop.broke)

(* C27 witness: a call with a sufficient payment and a positive rate has    *)
(* stopped after its third pass, one before the horizon.                    *)
C27_Witness ==
    /\ TotalInterestDone
    /\ SufficientPayment
    /\ RLt(Zero, annual_rate)
    /\ horizon = 4
    /\ loop.i = 3
    /\ loop.broke
    /\ ~PaidOffAfter(2)

(* The two simulations _calculate_interest_saved compares. *)
BaselinePayment == RMul(balance, Frac(2, 100))
BaselineInterest == calculate_total_interest(balance, BaselinePayment, annual_rate, horizon)
EnhancedInterest ==
    calculate_total_interest(balance, RAdd(BaselinePayment, extra_payment), annual_rate, horizon)

(* C28: for balance >= 0 and annual_rate >= 0 the interest a call of        *)
(* _calculate_total_interest returns is not below the interest of any       *)
(* larger payment and not above the interest of any smaller one, balance,   *)
(* rate and horizon being the same; and for extra_payment >= 0 what         *)
(* _calculate_interest_saved returns is the plain difference of its two     *)
(* simulations, which is not negative.                                      *)
C28_InterestMonotoneInPayment ==
    (op = "payoff" /\ RLeq(Zero, balance) /\ RLeq(Zero, annual_rate)) =>
        /\ pc = "ti_done" =>
                \A p2 \in Payments :
                    LET other == calculate_total_interest(balance, p2, annual_rate, horizon)
                    IN  /\ RLeq(monthly_payment, p2) => RLeq(other, loop.total_interest)
                        /\ RLeq(p2, monthly_payment) => RLeq(loop.total_interest, other)
        /\ (pc = "saved_done" /\ RLeq(Zero, extra_payment)) =>
                /\ RLeq(EnhancedInterest, BaselineInterest)
                /\ saved = RSub(BaselineInterest, EnhancedInterest)

(* C28 witness: _calculate_interest_saved has returned a positive saving    *)
(* for a positive extra payment over four months.                           *)
C28_Witness ==
    /\ op = "payoff" /\ pc = "saved_done"
    /\ RLt(Zero, balance)
    /\ RLt(Zero, annual_rate)
    /\ RLt(Zero, extra_payment)
    /\ horizon = 4
    /\ RLt(EnhancedInterest, BaselineInterest)
    /\ RLt(Zero, saved)

-----------------------------------------------------------------------------
(* Properties of simulate_spending_changes.                                 *)

(* The scenario the loop processed last and the entry stored for it. *)
LastScenario == scenarios[sidx]
LastEntry == results[scenario_name(LastScenario)]
LastChange == Get(LastScenario, "monthly_change", Zero)
LastDuration == Get(LastScenario, "duration_months", 12)
StatementBalance == Get(current_statement, "current_balance", Zero)

(* C3: the entry stored for a scenario has exactly one of the keys          *)
(* additional_interest and interest_saved: additional_interest iff          *)
(* monthly_change > 0, interest_saved (with new_balance) iff                *)
(* monthly_change <= 0; and so has every entry of the results.              *)
C3_ScenarioSignBranching ==
    op = "simulate" =>
        /\ sidx >= 1 =>
            LET keys == DOMAIN LastEntry
            IN  /\ "additional_interest" \in keys <=> LastChange[1] > 0
                /\ "interest_saved" \in keys <=> LastChange[1] <= 0
                /\ "interest_saved" \in keys => "new_balance" \in keys
        /\ \A n \in DOMAIN results :
            ("additional_interest" \in DOMAIN results[n])
                # ("interest_saved" \in DOMAIN results[n])

(* C3 witness: a scenario with monthly_change given as 0 was processed and  *)
(* its entry reports interest_saved.                                        *)
C3_Witness ==
    /\ op = "simulate"
    /\ sidx >= 1
    /\ "monthly_change" \in DOMAIN LastScenario
    /\ LastChange = Zero
    /\ "interest_saved" \in DOMAIN LastEntry

(* C4: the entry's new_balance is current_balance + monthly_change *        *)
(* duration_months for monthly_change > 0 and max(0, current_balance -      *)
(* |monthly_change| * duration_months) otherwise; with current_balance >= 0 *)
(* and duration_months >= 1 it is never negative.                           *)
C4_NewBalance ==
    op = "simulate" /\ sidx >= 1 =>
        LET delta == RMul(LastChange, R(LastDuration))
            reduced == RAdd(StatementBalance, delta)
        IN  /\ LastChange[1] > 0 => LastEntry.new_balance = RAdd(StatementBalance, delta)
            /\ LastChange[1] <= 0 =>
                    LastEntry.new_balance = (IF reduced[1] < 0 THEN Zero ELSE reduced)
            /\ StatementBalance[1] >= 0 /\ LastDuration >= 1 =>
                    LastEntry.new_balance[1] >= 0

(* C4 witness: a saving scenario larger than a positive balance, reported   *)
(* with new_balance 0.                                                      *)
C4_Witness ==
    /\ op = "simulate"
    /\ sidx >= 1
    /\ StatementBalance[1] > 0
    /\ LastChange[1] < 0
    /\ RLt(StatementBalance, RMul(RAbs(LastChange), R(LastDuration)))
    /\ LastEntry.new_balance = Zero

(* What the claims expect of an entry written for scenario sc. *)
ExpectedNewBalance(sc) ==
    LET change == Get(sc, "monthly_change", Zero)
        total == RMul(change, R(Get(sc, "duration_months", 12)))
    IN  IF change[1] > 0 THEN RAdd(StatementBalance, total)
        ELSE IF RLt(StatementBalance, RNeg(total)) THEN Zero
        ELSE RAdd(StatementBalance, total)

CarriesChangeAndBalance(entry, sc) ==
    /\ {"monthly_change", "new_balance"} \subseteq DOMAIN entry
    /\ entry.monthly_change = Get(sc, "monthly_change", Zero)
    /\ entry.new_balance = ExpectedNewBalance(sc)

CarriesDuration(entry, sc) ==
    /\ "duration_months" \in DOMAIN entry
    /\ entry.duration_months = Get(sc, "duration_months", 12)

(* The scenarios processed so far that are stored under the name n. *)
WrittenBy(n) == { i \in 1 .. sidx : Get(scenarios[i], "name", "Unnamed Scenario") = n }

(* C22 as claimed: every entry of the results carries the monthly_change,   *)
(* the duration_months and the computed new_balance of a scenario that was  *)
(* stored under its name.                                                   *)
C22_ResultCarriesDuration ==
    op = "simulate" =>
        \A n \in DOMAIN results :
            \E i \in WrittenBy(n) :
                /\ CarriesChangeAndBalance(results[n], scenarios[i])
                /\ CarriesDuration(results[n], scenarios[i])

(* C22 amended: every entry of the results carries the monthly_change and   *)
(* the computed new_balance of a scenario that was stored under its name;   *)
(* no entry has a duration_months field.                                    *)
C22_ResultCarriesChangeAndBalance ==
    op = "simulate" =>
        \A n \in DOMAIN results :
            /\ \E i \in WrittenBy(n) : CarriesChangeAndBalance(results[n], scenarios[i])
            /\ "duration_months" \notin DOMAIN results[n]

(* C22 witness: the call has returned entries for a spending and a saving   *)
(* scenario that both gave a duration_months other than the default.        *)
C22_Witness ==
    /\ op = "simulate" /\ pc = "sim_done"
    /\ Len(scenarios) = 2
    /\ DOMAIN results = {"A", "B"}
    /\ \A i \in 1 .. 2 : Get(scenarios[i], "duration_months", 12) = 2
    /\ Get(scenarios[1], "monthly_change", Zero)[1] > 0
    /\ Get(scenarios[2], "monthly_change", Zero)[1] < 0
    /\ \A n \in {"A", "B"} : {"monthly_change", "new_balance"} \subseteq DOMAIN results[n]

(* The mapping the loop builds from a whole list, and the list reordered. *)
RECURSIVE SimulateAll(_, _, _)
SimulateAll(st, scs, k) ==
    IF k = 0 THEN EmptyDict
    ELSE Put(SimulateAll(st, scs, k - 1), scenario_name(scs[k]), scenario_result(st, scs[k]))

Orderings(n) == { p \in [1 .. n -> 1 .. n] : \A i, j \in 1 .. n : p[i] = p[j] => i = j }
Reordered(scs, p) == [i \in 1 .. Len(scs) |-> scs[p[i]]]

(* C21: the mapping simulate_spending_changes returns is the one it returns *)
(* for every permutation of the scenarios list, and the entry stored under  *)
(* a scenario's name is the entry computed from that scenario alone,        *)
(* whatever the other scenarios of the list are.                            *)
C21_OrderIndependence ==
    (op = "simulate" /\ pc = "sim_done") =>
        /\ \A p \in Orderings(Len(scenarios)) :
                SimulateAll(current_statement, Reordered(scenarios, p), Len(scenarios))
                    = results
        /\ \A i \in 1 .. Len(scenarios) :
                results[scenario_name(scenarios[i])]
                    = scenario_result(current_statement, scenarios[i])


-----------------------------------------------------------------------------
(* Properties of parse_statement_text.                                      *)

(* The categories in the order the claim lists them, with their keyword     *)
(* tests on the lower-cased line.                                           *)
CategoryFields ==
    <<"previous_balance", "current_balance", "payments", "minimum_payment",
      "interest_charged", "due_date", "credit_limit", "available_credit">>

KeywordTest(line, k) ==
    CASE k = 1 -> Contains(line, kw_previous_balance) \/ Contains(line, kw_last_balance)
      [] k = 2 -> Contains(line, kw_current_balance) \/ Contains(line, kw_new_balance)
      [] k = 3 -> Contains(line, kw_payment) /\ ~Contains(line, kw_minimum)
      [] k = 4 -> Contains(line, kw_minimum_payment)
      [] k = 5 -> Contains(line, kw_interest) \/ Contains(line, kw_finance_charge)
      [] k = 6 -> Contains(line, kw_due_date) \/ Contains(line, kw_payment_due)
      [] k = 7 -> Contains(line, kw_credit_limit)
      [] k = 8 -> Contains(line, kw_available_credit)

MatchingCategories(line) == {k \in 1 .. 8 : KeywordTest(line, k)}
FirstCategory(line) ==
    CHOOSE k \in MatchingCategories(line) : \A j \in MatchingCategories(line) : k <= j

(* A step of the line scan, and the line it scans. *)
ScansLine == op = "parse" /\ pc = "scan" /\ lidx' = lidx + 1
ScannedLine == lines[lidx + 1]

(* Every key but `field` is present with the same value before and after. *)
OnlyFieldMayChange(field) ==
    \A k \in (DOMAIN statement_data \cup DOMAIN statement_data') \ {field} :
        /\ k \in DOMAIN statement_data
        /\ k \in DOMAIN statement_data'
        /\ statement_data'[k] = statement_data[k]

(* C6: a scanned line is assigned to the first category, in the fixed       *)
(* order, whose keyword test it passes: only that category's field may      *)
(* change, it takes the value extracted from the line, and a line passing   *)
(* no test changes nothing.                                                 *)
C6_LabelPrecedence ==
    [][ScansLine =>
        IF MatchingCategories(ScannedLine) = {} THEN statement_data' = statement_data
        ELSE LET field == CategoryFields[FirstCategory(ScannedLine)]
                 value == IF field = "due_date" THEN extract_date(ScannedLine)
                          ELSE extract_amount(ScannedLine)
             IN  /\ OnlyFieldMayChange(field)
                 /\ Truthy(value) =>
                        /\ field \in DOMAIN statement_data'
                        /\ statement_data'[field] = value.val
       ]_vars

(* C6 witness: the line scanned last passes the keyword tests of at least   *)
(* two categories and the field of the first one holds its value.           *)
C6_Witness ==
    /\ op = "parse" /\ pc = "scan" /\ lidx >= 1
    /\ Cardinality(MatchingCategories(lines[lidx])) >= 2
    /\ CategoryFields[FirstCategory(lines[lidx])] \in DOMAIN statement_data

ExampleTwoAmounts == <<"p", "r", "e", "v", "i", "o", "u", "s", " ", "b", "a", "l", "a", "n", "c", "e", ":", " ", "$", "1", "0", "0", ".", "0", "0", " ", "c", "u", "r", "r", "e", "n", "t", ":", " ", "$", "5", "0", ".", "0", "0">>

C8_DueDateFromLine ==
    (op = "parse" /\ pc = "scan" /\ lidx >= 1) =>
        LET line == lines[lidx]
        IN  (/\ Contains(line, kw_due_date) \/ Contains(line, kw_payment_due)
             /\ NumericDateStarts(line, 4) # {}) =>
                /\ "due_date" \in DOMAIN statement_data
                /\ statement_data["due_date"] = extract_date(line).val

AllFourKnown ==
    {"previous_balance", "current_balance", "payments", "interest_charged"}
        \subseteq DOMAIN statement_data

(* current_balance - previous_balance + payments - interest_charged *)
BalanceIdentityValue ==
    FSub(FAdd(statement_data["current_balance"], statement_data["payments"]),
         FAdd(statement_data["previous_balance"], statement_data["interest_charged"]))

(* previous_balance + new_charges - payments + interest_charged *)
Resubstituted ==
    FAdd(FSub(FAdd(statement_data["previous_balance"], statement_data["new_charges"]),
              statement_data["payments"]),
         statement_data["interest_charged"])

(* None of the four amounts is beyond the float range. *)
AllFourFinite ==
    \A f \in {"previous_balance", "current_balance", "payments", "interest_charged"} :
        IsRational(statement_data[f])

(* C9: in the returned record, when previous_balance, current_balance,      *)
(* payments and interest_charged are all present, new_charges is present    *)
(* and equals max(0, current - previous + payments - interest), which is 0  *)
(* also when that value is nan; a present new_charges is never negative.    *)
C9_NewChargesDerived ==
    (op = "parse" /\ pc = "parse_done") =>
        /\ AllFourKnown =>
            /\ "new_charges" \in DOMAIN statement_data
            /\ statement_data["new_charges"] =
                    (IF IsNaN(BalanceIdentityValue) \/ BalanceIdentityValue[1] < 0
                     THEN Zero ELSE BalanceIdentityValue)
        /\ "new_charges" \in DOMAIN statement_data => statement_data["new_charges"][1] >= 0

(* C9 witness: a returned record with all four fields and a positive        *)
(* derived new_charges.                                                     *)
C9_Witness ==
    /\ op = "parse" /\ pc = "parse_done"
    /\ AllFourKnown
    /\ "new_charges" \in DOMAIN statement_data
    /\ statement_data["new_charges"][1] > 0

(* C10 as stated: with all four fields known, re-substituting the derived   *)
(* new_charges reproduces current_balance (within a cent).                  *)
C10_BalanceRoundTrip ==
    (op = "parse" /\ pc = "parse_done" /\ AllFourKnown) =>
        /\ IsRational(Resubstituted)
        /\ IsRational(statement_data["current_balance"])
        /\ RLeq(RAbs(RSub(Resubstituted, statement_data["current_balance"])), Frac(1, 100))

(* C10 amended: for four known amounts within the float range,              *)
(* re-substitution reproduces current_balance when                          *)
(* current - previous + payments - interest >= 0; when that value is        *)
(* negative new_charges was clamped to 0 and the re-substituted value       *)
(* exceeds current_balance by the clamped amount.                           *)
C10_BalanceRoundTripAmended ==
    (op = "parse" /\ pc = "parse_done" /\ AllFourKnown /\ AllFourFinite) =>
        IF BalanceIdentityValue[1] >= 0
        THEN Resubstituted = statement_data["current_balance"]
        ELSE /\ statement_data["new_charges"] = Zero
             /\ RSub(Resubstituted, statement_data["current_balance"])
                    = RNeg(BalanceIdentityValue)

(* C10 witness: a returned record with all four fields whose derived        *)
(* new_charges is positive and re-substitutes to current_balance.           *)
C10_Witness ==
    /\ op = "parse" /\ pc = "parse_done"
    /\ AllFourKnown
    /\ BalanceIdentityValue[1] > 0
    /\ Resubstituted = statement_data["current_balance"]

(* C11: an interest_rate present in the returned record lies in [0, 0.30],  *)
(* and is present only together with a positive interest_charged.           *)
C11_InterestRateCapped ==
    (op = "parse" /\ pc = "parse_done" /\ "interest_rate" \in DOMAIN statement_data) =>
        /\ "interest_charged" \in DOMAIN statement_data
        /\ FLt(Zero, statement_data["interest_charged"])
        /\ ~FLt(statement_data["interest_rate"], Zero)
        /\ ~FLt(InterestRateCap, statement_data["interest_rate"])
        /\ ~IsNaN(statement_data["interest_rate"])

(* The return of parse_statement_text: the derivation step. *)
Returns == op = "parse" /\ pc = "scan" /\ pc' = "parse_done"

(* C12: when the scan left no available_credit but found credit_limit and   *)
(* current_balance, the returned record has available_credit =              *)
(* credit_limit - current_balance; an available_credit found by the scan    *)
(* is returned unchanged; otherwise the field stays absent.                 *)
C12_AvailableCreditDerived ==
    [][Returns =>
        IF "available_credit" \in DOMAIN statement_data
        THEN statement_data'["available_credit"] = statement_data["available_credit"]
        ELSE IF {"credit_limit", "current_balance"} \subseteq DOMAIN statement_data
        THEN /\ "available_credit" \in DOMAIN statement_data'
             /\ statement_data'["available_credit"] =
                    FSub(statement_data["credit_limit"], statement_data["current_balance"])
        ELSE "available_credit" \notin DOMAIN statement_data'
       ]_vars

AvailableCreditLine == \E k \in 1 .. Len(lines) : Contains(lines[k], kw_available_credit)

(* C12 witness: a returned record whose text has an available-credit line   *)
(* with a value other than credit_limit - current_balance, the value of     *)
(* the text being the one returned.                                         *)
C12_Witness ==
    /\ op = "parse" /\ pc = "parse_done"
    /\ AvailableCreditLine
    /\ {"credit_limit", "current_balance", "available_credit"} \subseteq DOMAIN statement_data
    /\ statement_data["available_credit"] #
            FSub(statement_data["credit_limit"], statement_data["current_balance"])

MetadataFields == {"raw_text", "parsed_at", "parsing_method"}
DerivedFields == {"new_charges", "available_credit", "interest_rate"}

(* Some line of the text is assigned to the field and holds a value for it. *)
Extractable(field) ==
    \E k \in 1 .. Len(lines) :
        /\ MatchingCategories(lines[k]) # {}
        /\ CategoryFields[FirstCategory(lines[k])] = field
        /\ LET value == IF field = "due_date" THEN extract_date(lines[k])
                        ELSE extract_amount(lines[k])
           IN  value.ok /\ value.val # Zero /\ value.val # <<>>

(* C13: parse_statement_text never raises; a field for which the text holds *)
(* no value is absent from the returned record unless the derivation step   *)
(* fills it; the empty text returns the three metadata fields only.         *)
C13_NeverFails ==
    /\ pc # "parse_raised"
    /\ (op = "parse" /\ pc = "parse_done") =>
        /\ MetadataFields \subseteq DOMAIN statement_data
        /\ \A f \in DOMAIN statement_data \ (MetadataFields \cup DerivedFields) :
                Extractable(f)
        /\ statement_text = <<>> => DOMAIN statement_data = MetadataFields

(* C13 witness: the empty text has been parsed. *)
C13_EmptyTextWitness ==
    /\ op = "parse" /\ pc = "parse_done"
    /\ statement_text = <<>>
    /\ DOMAIN statement_data = MetadataFields

(* Two records agree on every field but parsed_at. *)
SameExceptTimestamp(a, b) ==
    /\ DOMAIN a = DOMAIN b
    /\ \A k \in DOMAIN a \ {"parsed_at"} : a[k] = b[k]

(* C14: any two calls on the same text, on the same instance or not and     *)
(* whatever was parsed in between, return records that are equal in every   *)
(* field except parsed_at.                                                  *)
C14_Idempotence ==
    \A i, j \in 1 .. Len(returned) :
        returned[i].record["raw_text"] = returned[j].record["raw_text"] =>
            SameExceptTimestamp(returned[i].record, returned[j].record)

(* C14 witness: the same text parsed first and third, on different          *)
(* instances and at different times, another text in between, with fields   *)
(* found by the scan and by the derivation.                                 *)
C14_Witness ==
    /\ Len(returned) = 3
    /\ returned[1].record["raw_text"] = returned[3].record["raw_text"]
    /\ returned[1].record["raw_text"] # returned[2].record["raw_text"]
    /\ returned[1].by # returned[3].by
    /\ returned[1].record["parsed_at"] # returned[3].record["parsed_at"]
    /\ "interest_rate" \in DOMAIN returned[3].record
    /\ SameExceptTimestamp(returned[1].record, returned[3].record)

(* The fields the scan fills with an amount. *)
AmountFields ==
    {"previous_balance", "current_balance", "payments", "minimum_payment",
     "interest_charged", "credit_limit", "available_credit"}

Assigned(line) == MatchingCategories(line) # {}
ZeroAmountLine(line) ==
    /\ Assigned(line)
    /\ FirstCategory(line) # 6
    /\ extract_amount(line) = Some(Zero)

(* C29: during the scan every amount field of the record is greater than 0; *)
(* a line of an amount category whose extracted amount is 0 changes         *)
(* nothing; and the derivation that follows never divides by a zero         *)
(* previous_balance: the call does not raise.                               *)
C29_ScannedAmountsPositive ==
    /\ [](op = "parse" /\ pc = "scan" =>
            \A f \in AmountFields \cap DOMAIN statement_data :
                FLt(Zero, statement_data[f]))
    /\ [][ScansLine /\ ZeroAmountLine(ScannedLine) =>
            statement_data' = statement_data]_vars
    /\ [](op = "parse" =>
            /\ pc # "parse_raised"
            /\ (pc = "parse_done" /\ "previous_balance" \in DOMAIN statement_data) =>
                    FLt(Zero, statement_data["previous_balance"]))

(* C29 witness: a statement whose previous-balance line gives 0.00 and      *)
(* whose interest line gives an amount was parsed: previous_balance is      *)
(* unset and no rate was derived.                                           *)
C29_Witness ==
    /\ op = "parse" /\ pc = "parse_done"
    /\ \E j \in 1 .. Len(lines) :
            ZeroAmountLine(lines[j]) /\ FirstCategory(lines[j]) = 1
    /\ "previous_balance" \notin DOMAIN statement_data
    /\ "interest_charged" \in DOMAIN statement_data
    /\ "interest_rate" \notin DOMAIN statement_data

(* What a line offers to the field of its category, and whether the scan    *)
(* takes it: a date, or an amount other than 0.                             *)
LineValue(line) == IF FirstCategory(line) = 6 THEN extract_date(line) ELSE extract_amount(line)
Yields(line) ==
    /\ Assigned(line)
    /\ LineValue(line).ok
    /\ LineValue(line).val # Zero
    /\ LineValue(line).val # <<>>

(* Every line of every explored text, with its category (0 for none) and   *)
(* the value it offers.                                                     *)
ExploredLines ==
    UNION { { ls[j] : j \in 1 .. Len(ls) } : ls \in { SplitLines(Lower(t)) : t \in Texts } }
LineOffer ==
    [line \in ExploredLines |->
        [category |-> IF Assigned(line) THEN FirstCategory(line) ELSE 0,
         value |-> IF Assigned(line) THEN LineValue(line) ELSE None]]

(* The same for each line scanned so far. *)
ScannedCategory == [j \in 1 .. lidx |-> LineOffer[lines[j]].category]
ScannedValue == [j \in 1 .. lidx |-> LineOffer[lines[j]].value]
LastOf(S) == CHOOSE j \in S : \A i \in S : i <= j

(* C30: during the scan a field holds the value of the last line scanned so *)
(* far that was assigned to it and gave a value (a date, or an amount other *)
(* than 0), and is unset when there is no such line; so a later line that   *)
(* gives no value leaves the field as it was and no line removes a field.   *)
C30_LastLineWins ==
    (op = "parse" /\ pc = "scan") =>
        \A category \in {ScannedCategory}, offered \in {ScannedValue} :
            \A k \in 1 .. 8 :
                LET yielding == { j \in 1 .. lidx :
                                    /\ category[j] = k
                                    /\ offered[j].ok
                                    /\ offered[j].val # Zero
                                    /\ offered[j].val # <<>> }
                    field == CategoryFields[k]
                IN  IF yielding = {}
                    THEN field \notin DOMAIN statement_data
                    ELSE /\ field \in DOMAIN statement_data
                         /\ statement_data[field] = offered[LastOf(yielding)].val

(* C30 witness: three lines of the previous balance were scanned, the first *)
(* two with different amounts, the third with none; the field holds the     *)
(* amount of the second.                                                    *)
C30_Witness ==
    /\ op = "parse" /\ pc = "scan" /\ lidx = 3
    /\ \A j \in 1 .. 3 : Assigned(lines[j]) /\ FirstCategory(lines[j]) = 1
    /\ Yields(lines[1]) /\ Yields(lines[2]) /\ ~Yields(lines[3])
    /\ extract_amount(lines[1]) # extract_amount(lines[2])
    /\ statement_data["previous_balance"] = extract_amount(lines[2]).val

-----------------------------------------------------------------------------
(* Properties of parse_csv_transactions.                                    *)

(* A step of the loop over the data rows, the row it handles, and the       *)
(* record built from the row when its token count is the header's.          *)
HandlesRow == op = "csv" /\ pc = "csv_rows" /\ lidx' = lidx + 1
HandledRow == lines[lidx + 1]
TokenCount(line) == Len(Split(line, ","))
RowRecord(line) == csv_transaction(headers, csv_values(line))
Malformed(line) == TokenCount(line) # Len(headers)
ValidRow(line) ==
    /\ Strip(line) # <<>>
    /\ ~Malformed(line)
    /\ standardize_transaction(RowRecord(line)).ok
Emitted == Len(transactions') = Len(transactions) + 1
Dropped == transactions' = transactions

DataRows == 2 .. Len(lines)
ExtraCommaRows == {k \in DataRows : TokenCount(lines[k]) > Len(headers)}
OneExtraCommaRowRestValid ==
    /\ Cardinality(ExtraCommaRows) = 1
    /\ \A k \in DataRows \ ExtraCommaRows : ValidRow(lines[k])

(* C15: a row whose token count differs from the header's is skipped and   *)
(* the loop goes on; a valid row adds its transaction whatever rows came    *)
(* before; when exactly one of the N data rows has extra commas and the     *)
(* others are valid, N - 1 transactions are returned.                       *)
C15_MalformedRowTolerance ==
    [][/\ HandlesRow =>
            /\ Malformed(HandledRow) => (Dropped /\ pc' = "csv_rows")
            /\ ValidRow(HandledRow) =>
                    transactions' = Append(transactions,
                                           standardize_transaction(RowRecord(HandledRow)).val)
       /\ (op = "csv" /\ pc' = "csv_done" /\ OneExtraCommaRowRestValid) =>
            Len(transactions) = Cardinality(DataRows) - 1
      ]_vars

(* C15 witness: three data rows, the middle one with extra commas, and the  *)
(* two others returned.                                                     *)
C15_Witness ==
    /\ op = "csv" /\ pc = "csv_done"
    /\ Len(lines) = 4
    /\ ExtraCommaRows = {3}
    /\ OneExtraCommaRowRestValid
    /\ Len(transactions) = 2

(* The value of the first amount column the row has, and whether float()    *)
(* accepts it after the clean-up.                                           *)
AmountColumns(t) == {k \in 1 .. 4 : field_mappings.amount[k] \in DOMAIN t}
FirstAmountValue(t) ==
    t[field_mappings.amount[CHOOSE k \in AmountColumns(t) : \A j \in AmountColumns(t) : k <= j]]
Numeric(value) == PyFloat(clean_amount(value)).ok
WellFormedRow(line) == Strip(line) # <<>> /\ ~Malformed(line)

HasColumn(t, standard_field) ==
    \E k \in 1 .. Len(field_mappings[standard_field]) :
        field_mappings[standard_field][k] \in DOMAIN t

-----------------------------------------------------------------------------
(* Properties of categorize_transactions.                                   *)

(* A step of the loop over the transactions, the transaction it handles,    *)
(* and the effect of adding an amount under a key.                          *)
Categorizes == op = "categorize" /\ pc = "cat_loop" /\ tidx' = tidx + 1
Handled == transactions[tidx + 1]
GivenCategory(t) == Get(t, "category", <<>>)
AbsAmount(t) == RAbs(Get(t, "amount", Zero))
AccumulatedUnder(key) ==
    /\ DOMAIN categories' = DOMAIN categories \cup {key}
    /\ categories'[key] = RAdd(Get(categories, key, Zero), AbsAmount(Handled))
    /\ \A k \in DOMAIN categories \ {key} : categories'[k] = categories[k]

(* C18: a transaction with a non-empty category is accumulated under that   *)
(* category in title case, whatever its merchant and description say.       *)
C18_GivenCategoryWins ==
    [][(Categorizes /\ GivenCategory(Handled) # <<>>) =>
            AccumulatedUnder(Title(Lower(GivenCategory(Handled))))
      ]_vars

(* C18 witness: the transaction of merchant Starbucks and category TRAVEL   *)
(* was handled and its amount stands under Travel alone.                    *)
C18_Witness ==
    /\ op = "categorize" /\ tidx = 1
    /\ GivenCategory(transactions[1]) = <<"T", "R", "A", "V", "E", "L">>
    /\ Contains(text_to_check(transactions[1]), <<"s", "t", "a", "r", "b", "u", "c", "k", "s">>)
    /\ DOMAIN categories = {cat_travel}

(* The order of the categories as the claim lists it, and the listed        *)
(* categories that have a keyword of the table in a text.                   *)
ClaimedOrder ==
    <<cat_dining_restaurants, cat_gas_auto, cat_groceries, cat_shopping_retail,
      cat_travel, cat_utilities, cat_entertainment, cat_healthcare>>
CategoriesMatching(text) ==
    {k \in 1 .. Len(ClaimedOrder) :
        \E e \in 1 .. Len(category_keywords) :
            /\ category_keywords[e].name = ClaimedOrder[k]
            /\ \E j \in 1 .. Len(category_keywords[e].keywords) :
                    Contains(text, category_keywords[e].keywords[j])}
FirstMatching(text) ==
    IF CategoriesMatching(text) = {} THEN cat_other
    ELSE ClaimedOrder[CHOOSE k \in CategoriesMatching(text) :
                        \A j \in CategoriesMatching(text) : k <= j]

(* C19: a transaction without a category is accumulated under the first     *)
(* category, in the listed order, one of whose keywords occurs in the       *)
(* lower-cased merchant and description, under Other when none does; the    *)
(* merchant Walmart goes to Groceries.                                      *)
C19_CategoryPrecedence ==
    [][(Categorizes /\ GivenCategory(Handled) = <<>>) =>
            /\ AccumulatedUnder(FirstMatching(text_to_check(Handled)))
            /\ Get(Handled, "merchant", <<>>) = <<"W", "a", "l", "m", "a", "r", "t">> =>
                    cat_groceries \in DOMAIN categories'
      ]_vars

(* C19 witness: the merchant Walmart, whose name is a keyword of Groceries  *)
(* and of Shopping & Retail, stands under Groceries alone.                  *)
C19_Witness ==
    /\ op = "categorize" /\ tidx = 1
    /\ GivenCategory(transactions[1]) = <<>>
    /\ Cardinality(CategoriesMatching(text_to_check(transactions[1]))) = 2
    /\ DOMAIN categories = {cat_groceries}

RECURSIVE SumAbsUpTo(_, _)
SumAbsUpTo(keys, k) ==
    IF k = 0 THEN Zero
    ELSE RAdd(SumAbsUpTo(keys, k - 1),
              IF resolve_category(transactions[k]) \in keys
              THEN AbsAmount(transactions[k]) ELSE Zero)

RECURSIVE SumOfTotals(_)
SumOfTotals(keys) ==
    IF keys = {} THEN Zero
    ELSE LET key == CHOOSE x \in keys : TRUE
         IN  RAdd(categories[key], SumOfTotals(keys \ {key}))

(* C20: the mapping holds exactly the categories resolved for the           *)
(* transactions handled so far, each with the sum of abs(amount) of its     *)
(* transactions, so the totals add up to the sum of abs(amount) over all    *)
(* of them; no category is present for no transaction.                      *)
C20_SparseTotals ==
    op = "categorize" =>
        /\ DOMAIN categories = {resolve_category(transactions[k]) : k \in 1 .. tidx}
        /\ \A key \in DOMAIN categories : categories[key] = SumAbsUpTo({key}, tidx)
        /\ SumOfTotals(DOMAIN categories) = SumAbsUpTo(DOMAIN categories, tidx)
        /\ \A key \in DOMAIN categories : categories[key][1] >= 0

(* C20 witness: three transactions returned under two categories, one of    *)
(* them holding the sum of a negative and a positive amount.                *)
C20_Witness ==
    /\ op = "categorize" /\ pc = "cat_done"
    /\ Len(transactions) = 3
    /\ Cardinality(DOMAIN categories) = 2
    /\ \E i, j \in 1 .. 3 :
            /\ i # j
            /\ resolve_category(transactions[i]) = resolve_category(transactions[j])
            /\ Get(transactions[i], "amount", Zero)[1] < 0
            /\ Get(transactions[j], "amount", Zero)[1] > 0
            /\ categories[resolve_category(transactions[i])] =
                    RAdd(AbsAmount(transactions[i]), AbsAmount(transactions[j]))


-----------------------------------------------------------------------------
(* Properties of classify_dispute.                                          *)

DisputeTypes == {dispute_fraud, dispute_billing, dispute_service}

(* C24: classify_dispute never raises, and what it returns is one of        *)
(* 'fraud', 'billing' and 'service': for every text the model returns, when *)
(* there is no Bedrock client, and when the model call raises.              *)
C24_ClassificationTotal ==
    op = "classify" =>
        /\ pc # "classify_raised"
        /\ pc = "classify_done" => classification \in DisputeTypes

(* C24 witness: the model call raised with a message that names a dispute   *)
(* type, and the call returned that type.                                   *)
C24_Witness ==
    /\ op = "classify" /\ pc = "classify_done"
    /\ bedrock_runtime = "client"
    /\ reply.raises
    /\ Contains(Lower(reply.text), dispute_service)
    /\ response = error_prefix \o reply.text
    /\ classification = dispute_service


-----------------------------------------------------------------------------
(* Properties of calls made by independent workers.                         *)

(* The call run alone: from its start, every iteration, then the return,    *)
(* with no step of anyone else in between.                                  *)
RECURSIVE RunToEnd(_, _)
RunToEnd(fr, input) ==
    IF fr.k < Len(fr.items)
    THEN CHOOSE end \in { RunToEnd(next, input) : next \in {call_step(fr, input)} } : TRUE
    ELSE call_return(fr)

RunAlone == [input \in WorkerInputs, now \in Timestamps |->
                 RunToEnd(call_begin(IdleFrame, input, now), input)]

(* The list argument of categorize_transactions and of                      *)
(* simulate_spending_changes.                                               *)
ListArgument(input) ==
    IF input.operation = op_categorize THEN input.transactions ELSE input.scenarios

(* C23: whatever the workers' steps are interleaved with, no call writes an *)
(* attribute of the instance, a call that has ended has ended as the same   *)
(* call run alone (the same result, or the same exception), and the         *)
(* argument the caller passed is as the caller made it; a list or dict      *)
(* argument is the very sequence the loop runs over.                        *)
C23_CallsIndependent ==
    op = "workers" =>
        /\ instance = InitialInstance
        /\ \A w \in Workers :
            frames[w].pc # "idle" =>
                /\ calls[w].input \in WorkerInputs
                /\ frames[w].operation = calls[w].input.operation
                /\ frames[w].operation \in {op_categorize, op_simulate} =>
                       frames[w].items = ListArgument(calls[w].input)
                /\ frames[w].pc # "running" =>
                       /\ frames[w].pc = RunAlone[calls[w].input, calls[w].now].pc
                       /\ frames[w].result = RunAlone[calls[w].input, calls[w].now].result

(* C23 witness: both workers are in their second call, the calls have       *)
(* overlapped, and both have returned.                                      *)
C23_Witness ==
    /\ op = "workers"
    /\ \A w \in Workers :
        /\ calls[w].count = 2
        /\ calls[w].overlapped
        /\ frames[w].pc = "returned"
    /\ calls[1].input.operation = op_categorize
    /\ calls[2].input.operation = op_categorize
    /\ calls[1].input # calls[2].input

=============================================================================
